---- MODULE Spec2Model ----
(***************************************************************************)
(* Piggy_App: the client-side time-series preparation of the equity chart  *)
(* (Home screen) and of the price chart (MarketPriceChart), the older      *)
(* range filter kept in the previous Home screen, and the 'last close'    *)
(* selection of the trade and position screens.                           *)
(*                                                                         *)
(* Numbers.  A JavaScript number n that the code handles is a timestamp    *)
(* around 1e12, more than a 32-bit integer holds.  n is written as the     *)
(* record [k |-> q, u |-> r] with n = 1000 * q + r and 0 <= r < 1000.      *)
(* A quantity in seconds that may carry a fraction (timestamp / 1000) is   *)
(* written in thousandths of a second in the same form, so that            *)
(* division by 1000 is exact, as it is for the doubles of the code in the  *)
(* range of the model.                                                     *)
(***************************************************************************)
EXTENDS Integers, Sequences, FiniteSets

VARIABLES
    series,       \* the series handed to the screen (the caller's array)
    defined,      \* FALSE when what is handed as series is undefined
    range,        \* the selected ChartRange
    now,          \* Date.now()
    tz,           \* minutes to add to UTC to get the device's local time
    pc,           \* which function has run last
    eqFiltered,   \* Home: result of filterSeriesByRange
    eqOut,        \* Home: result of prepareChartData
    eqAgain,      \* Home: prepareChartData applied to eqOut
    pxFiltered,   \* MarketPriceChart: result of filterByRange (first useMemo)
    pxOut,        \* MarketPriceChart: result of downsampleForRange (second useMemo)
    pxAgain,      \* MarketPriceChart: both stages applied to pxOut
    memoRange,    \* MarketPriceChart: the range the useMemo values were computed for
    lastClose,    \* trade / position screen: lastCloseFromHistory
    oldFiltered,  \* previous Home screen: result of its filterSeriesByRange
    sameArray,    \* the array last returned is the caller's array itself
    rendered,     \* what the chart component last returned
    response,     \* the response of the server to the last request
    loaded,       \* the value that load() has put in the series / history state
    qty,          \* formatQuantity: the argument
    formatted,    \* formatQuantity: the string returned
    screen,       \* the screen on which the user makes a mutation
    symbolInput,  \* the text of the symbol field (the route parameter of a position)
    selectedSymbol, \* trade screen with dropdown: the selected option, or none
    quantity,     \* the text of the quantity (or amount) field
    tradePc,      \* where the mutation of the screen stands
    busy,         \* tradeLoading / loading / removeLoading
    errorState,   \* error / tradeError / removeError
    sent,         \* the request made to the server, or none
    events,       \* what the last handler has done, in order
    listeners,    \* portfolioEvents: the array of the subscribed listeners
    subs,         \* the unsubscribe functions that subscribe has returned
    pass,         \* the forEach of the notify that runs, if one does
    invoked,      \* the listeners that the last notify has called, in order
    asked,        \* what has been asked of the bus so far
    snapshot,     \* Home: the snapshot state
    loading,      \* Home: the loading state
    refreshing,   \* Home: the refreshing state
    equitySeries, \* Home: the series state
    chartLoading, \* Home: the chartLoading state
    lastEquityFetchRef,  \* Home: lastEquityFetchRef.current
    lastEquityValueRef,  \* Home: lastEquityValueRef.current
    calls,        \* Home: the calls of load and handleRefreshMarket so far
    clock,        \* Date.now(), in milliseconds from an instant of the past
    home          \* Home: the order of the loads, the instants of the
                  \* requests for the equity series, the steps of the clock

chartVars ==
    <<series, defined, range, now, tz, pc, eqFiltered, eqOut, eqAgain,
      pxFiltered, pxOut, pxAgain, memoRange, lastClose, oldFiltered,
      sameArray, rendered, response, loaded>>

formatVars ==
    <<qty, formatted>>

tradeVars ==
    <<screen, symbolInput, selectedSymbol, quantity, tradePc, busy,
      errorState, sent, events>>

busVars ==
    <<listeners, subs, pass, invoked, asked>>

homeVars ==
    <<snapshot, loading, refreshing, equitySeries, chartLoading,
      lastEquityFetchRef, lastEquityValueRef, calls, clock, home>>

vars ==
    <<chartVars, formatVars, tradeVars, busVars, homeVars>>

-----------------------------------------------------------------------------
(* Arithmetic on numbers n = 1000 * k + u *)

Num(q, r) ==
    [k |-> q, u |-> r]

Lt(a, b) ==
    a.k < b.k \/ (a.k = b.k /\ a.u < b.u)

Gt(a, b) ==
    Lt(b, a)

Geq(a, b) ==
    ~Lt(a, b)

Minus(a, b) ==
    IF a.u >= b.u THEN Num(a.k - b.k, a.u - b.u)
                  ELSE Num(a.k - b.k - 1, a.u - b.u + 1000)

Plus(a, b) ==
    IF a.u + b.u < 1000 THEN Num(a.k + b.k, a.u + b.u)
                        ELSE Num(a.k + b.k + 1, a.u + b.u - 1000)

Times1000(a) ==
    Num(a.k * 1000 + a.u, 0)

\* the literal 1e12
E12 ==
    Num(1000000000, 0)

-----------------------------------------------------------------------------
(* Constants of the source *)

CHART_RANGES ==
    <<"1D", "1W", "1M", "1Y">>

\* RANGE_MS of the Home screen, in milliseconds
RANGE_MS ==
    [r \in {"1D", "1W", "1M", "1Y"} |->
        CASE r = "1D" -> Num(24 * 60 * 60, 0)
          [] r = "1W" -> Num(7 * 24 * 60 * 60, 0)
          [] r = "1M" -> Num(30 * 24 * 60 * 60, 0)
          [] r = "1Y" -> Num(366 * 24 * 60 * 60, 0)]

\* a table of MarketPriceChart with a year of 365 days
RANGE_MS_Price_Year365 ==
    [r \in {"1D", "1W", "1M", "1Y"} |->
        CASE r = "1D" -> Num(24 * 60 * 60, 0)
          [] r = "1W" -> Num(7 * 24 * 60 * 60, 0)
          [] r = "1M" -> Num(30 * 24 * 60 * 60, 0)
          [] r = "1Y" -> Num(365 * 24 * 60 * 60, 0)]

\* RANGE_MS of MarketPriceChart, in milliseconds
RANGE_MS_Price ==
    [r \in {"1D", "1W", "1M", "1Y"} |->
        CASE r = "1D" -> Num(24 * 60 * 60, 0)
          [] r = "1W" -> Num(7 * 24 * 60 * 60, 0)
          [] r = "1M" -> Num(30 * 24 * 60 * 60, 0)
          [] r = "1Y" -> Num(366 * 24 * 60 * 60, 0)]

\* RANGE_MS of the previous Home screen, in milliseconds
RANGE_MS_Old ==
    [r \in {"1D", "1W", "1M", "1Y"} |->
        CASE r = "1D" -> Num(24 * 60 * 60, 0)
          [] r = "1W" -> Num(7 * 24 * 60 * 60, 0)
          [] r = "1M" -> Num(30 * 24 * 60 * 60, 0)
          [] r = "1Y" -> Num(365 * 24 * 60 * 60, 0)]

\* a bucket of five days
SEVEN_DAYS_SEC_FiveDays ==
    5 * 24 * 60 * 60

SEVEN_DAYS_SEC ==
    7 * 24 * 60 * 60

-----------------------------------------------------------------------------
(* Built-ins of the language that the code calls *)

\* Array.prototype.sort with the comparator key(a) - key(b): a stable sort.
\* keys[i] is the comparator's key of s[i].
StableSort(s, keys) ==
    LET n == Len(s)
        rank(i) == 1 + Cardinality({j \in 1..n :
                        Lt(keys[j], keys[i]) \/ (keys[j] = keys[i] /\ j < i)})
    IN  [r \in 1..n |-> s[CHOOSE i \in 1..n : rank(i) = r]]

\* Array.prototype.filter: the elements for which keep[i], in order
RECURSIVE Filter(_, _, _)
Filter(s, keep, i) ==
    IF i > Len(s) THEN <<>>
    ELSE IF keep[i] THEN <<s[i]>> \o Filter(s, keep, i + 1)
    ELSE Filter(s, keep, i + 1)

\* Math.floor(x / d) for x in thousandths of a second and d whole seconds
FloorDivSec(x, d) ==
    x.k \div d

\* The civil year and zero-based month of a day count since 1970-01-01
YearMonthOfDay(days) ==
    LET z   == days + 719468
        era == z \div 146097
        doe == z - era * 146097
        yoe == (doe - (doe \div 1460) + (doe \div 36524) - (doe \div 146096)) \div 365
        doy == doe - (365 * yoe + (yoe \div 4) - (yoe \div 100))
        mp  == (5 * doy + 2) \div 153
        m   == IF mp < 10 THEN mp + 3 ELSE mp - 9
        y   == yoe + era * 400 + (IF m <= 2 THEN 1 ELSE 0)
    IN  [year |-> y, month |-> m - 1]

\* new Date(ms).getFullYear() * 12 + new Date(ms).getMonth(), local time
MonthBucket(ms, offsetMin) ==
    LET ym == YearMonthOfDay((ms.k + offsetMin * 60) \div 86400)
    IN  ym.year * 12 + ym.month

\* Map: the entries in insertion order; set() of a present key replaces the
\* value in place
MapHas(m, b) ==
    \E j \in 1..Len(m) : m[j].key = b

MapGet(m, b) ==
    m[CHOOSE j \in 1..Len(m) : m[j].key = b].val

MapSet(m, b, v) ==
    IF MapHas(m, b)
    THEN [j \in 1..Len(m) |-> IF m[j].key = b THEN [key |-> b, val |-> v] ELSE m[j]]
    ELSE Append(m, [key |-> b, val |-> v])

\* Array.from(map.values())
MapValues(m) ==
    IF Len(m) = 0 THEN <<>> ELSE [j \in 1..Len(m) |-> m[j].val]

-----------------------------------------------------------------------------
(* EquityChart component: normalization of a timestamp to milliseconds *)

toMs(timestamp) ==
    IF Gt(timestamp, E12) THEN timestamp ELSE Times1000(timestamp)

-----------------------------------------------------------------------------
(* Home screen: filterSeriesByRange, downsampleEquityByRange, prepareChartData *)

\* slip: the seconds are not scaled to milliseconds
toMs_filterSeriesByRange_NoScale(p) ==
    p.timestamp

toMs_filterSeriesByRange(p) ==
    IF Gt(p.timestamp, E12) THEN p.timestamp ELSE Times1000(p.timestamp)

\* slip: > for >=
filterSeriesByRange_Exclusive(s, rng, nowMs) ==
    LET cutoffMs == Minus(nowMs, RANGE_MS[rng])
        kept == Filter(s, [i \in 1..Len(s) |->
                    Gt(toMs_filterSeriesByRange(s[i]), cutoffMs)], 1)
    IN  StableSort(kept, [i \in 1..Len(kept) |-> toMs_filterSeriesByRange(kept[i])])

\* slip: the sort left out
filterSeriesByRange_Unsorted(s, rng, nowMs) ==
    LET cutoffMs == Minus(nowMs, RANGE_MS[rng])
    IN  Filter(s, [i \in 1..Len(s) |->
                    Geq(toMs_filterSeriesByRange(s[i]), cutoffMs)], 1)

filterSeriesByRange(s, rng, nowMs) ==
    LET cutoffMs == Minus(nowMs, RANGE_MS[rng])
        kept == Filter(s, [i \in 1..Len(s) |->
                    Geq(toMs_filterSeriesByRange(s[i]), cutoffMs)], 1)
    IN  StableSort(kept, [i \in 1..Len(kept) |-> toMs_filterSeriesByRange(kept[i])])

\* in thousandths of a second
toSec_downsampleEquityByRange(p) ==
    IF Gt(p.timestamp, E12) THEN p.timestamp ELSE Times1000(p.timestamp)

toMs_downsampleEquityByRange(p) ==
    IF Gt(p.timestamp, E12) THEN p.timestamp ELSE Times1000(p.timestamp)

\* slip: a bucket keeps its first point
RECURSIVE bucketMap1M_Equity_KeepFirst(_, _, _)
bucketMap1M_Equity_KeepFirst(s, i, bucketMap) ==
    IF i > Len(s) THEN bucketMap
    ELSE LET p == s[i]
             bucket == FloorDivSec(toSec_downsampleEquityByRange(p), SEVEN_DAYS_SEC)
         IN  bucketMap1M_Equity_KeepFirst(s, i + 1,
                 IF ~MapHas(bucketMap, bucket)
                 THEN MapSet(bucketMap, bucket, p)
                 ELSE bucketMap)

RECURSIVE bucketMap1M_Equity(_, _, _)
bucketMap1M_Equity(s, i, bucketMap) ==
    IF i > Len(s) THEN bucketMap
    ELSE LET p == s[i]
             bucket == FloorDivSec(toSec_downsampleEquityByRange(p), SEVEN_DAYS_SEC)
         IN  bucketMap1M_Equity(s, i + 1,
                 IF \/ ~MapHas(bucketMap, bucket)
                    \/ Gt(toSec_downsampleEquityByRange(p),
                          toSec_downsampleEquityByRange(MapGet(bucketMap, bucket)))
                 THEN MapSet(bucketMap, bucket, p)
                 ELSE bucketMap)

RECURSIVE bucketMap1Y_Equity(_, _, _, _)
bucketMap1Y_Equity(s, i, bucketMap, offsetMin) ==
    IF i > Len(s) THEN bucketMap
    ELSE LET p == s[i]
             bucket == MonthBucket(toMs_downsampleEquityByRange(p), offsetMin)
         IN  bucketMap1Y_Equity(s, i + 1,
                 IF \/ ~MapHas(bucketMap, bucket)
                    \/ Gt(toMs_downsampleEquityByRange(p),
                          toMs_downsampleEquityByRange(MapGet(bucketMap, bucket)))
                 THEN MapSet(bucketMap, bucket, p)
                 ELSE bucketMap,
                 offsetMin)

\* slip: 1M passes through like 1D and 1W
downsampleEquityByRange_NoWeekly(s, rng, offsetMin) ==
    IF Len(s) = 0 THEN s
    ELSE IF rng = "1D" \/ rng = "1W" \/ rng = "1M" THEN s
    ELSE IF rng = "1Y" THEN
        LET vals == MapValues(bucketMap1Y_Equity(s, 1, <<>>, offsetMin))
        IN  StableSort(vals, [i \in 1..Len(vals) |-> toMs_downsampleEquityByRange(vals[i])])
    ELSE s

\* slip: the loops start at the second point
downsampleEquityByRange_SkipFirst(s, rng, offsetMin) ==
    IF Len(s) = 0 THEN s
    ELSE IF rng = "1D" \/ rng = "1W" THEN s
    ELSE IF rng = "1M" THEN
        LET vals == MapValues(bucketMap1M_Equity(s, 2, <<>>))
        IN  StableSort(vals, [i \in 1..Len(vals) |-> toSec_downsampleEquityByRange(vals[i])])
    ELSE IF rng = "1Y" THEN
        LET vals == MapValues(bucketMap1Y_Equity(s, 2, <<>>, offsetMin))
        IN  StableSort(vals, [i \in 1..Len(vals) |-> toMs_downsampleEquityByRange(vals[i])])
    ELSE s

downsampleEquityByRange(s, rng, offsetMin) ==
    IF Len(s) = 0 THEN s
    ELSE IF rng = "1D" \/ rng = "1W" THEN s
    ELSE IF rng = "1M" THEN
        LET vals == MapValues(bucketMap1M_Equity(s, 1, <<>>))
        IN  StableSort(vals, [i \in 1..Len(vals) |-> toSec_downsampleEquityByRange(vals[i])])
    ELSE IF rng = "1Y" THEN
        LET vals == MapValues(bucketMap1Y_Equity(s, 1, <<>>, offsetMin))
        IN  StableSort(vals, [i \in 1..Len(vals) |-> toMs_downsampleEquityByRange(vals[i])])
    ELSE s

prepareChartData(s, rng, nowMs, offsetMin) ==
    LET filtered == filterSeriesByRange(s, rng, nowMs)
    IN  downsampleEquityByRange(filtered, rng, offsetMin)

-----------------------------------------------------------------------------
(* MarketPriceChart: toSec, filterByRange, downsampleForRange *)

\* in thousandths of a second
toSec(p) ==
    IF Gt(p.timestamp, E12) THEN p.timestamp ELSE Times1000(p.timestamp)

\* a filter that never looks at the last point
filterByRange_SkipsLast(s, rng, nowMs) ==
    LET cutoffSec == Minus(nowMs, RANGE_MS_Price[rng])
        head == SubSeq(s, 1, Len(s) - 1)
        kept == Filter(head, [i \in 1..Len(head) |-> Geq(toSec(head[i]), cutoffSec)], 1)
    IN  StableSort(kept, [i \in 1..Len(kept) |-> toSec(kept[i])])

filterByRange(s, rng, nowMs) ==
    LET cutoffMs == Minus(nowMs, RANGE_MS_Price[rng])
        cutoffSec == cutoffMs     \* cutoffMs / 1000, in thousandths
        kept == Filter(s, [i \in 1..Len(s) |-> Geq(toSec(s[i]), cutoffSec)], 1)
    IN  StableSort(kept, [i \in 1..Len(kept) |-> toSec(kept[i])])

\* in thousandths of a second
sec(p) ==
    IF Gt(p.timestamp, E12) THEN p.timestamp ELSE Times1000(p.timestamp)

tsMs(p) ==
    IF Gt(p.timestamp, E12) THEN p.timestamp ELSE Times1000(p.timestamp)

\* slip: >= for >, a tie replaces the point of the bucket
RECURSIVE bucketMap1M_Price_TieReplaces(_, _, _)
bucketMap1M_Price_TieReplaces(s, i, bucketMap) ==
    IF i > Len(s) THEN bucketMap
    ELSE LET p == s[i]
             bucket == FloorDivSec(sec(p), SEVEN_DAYS_SEC)
         IN  bucketMap1M_Price_TieReplaces(s, i + 1,
                 IF \/ ~MapHas(bucketMap, bucket)
                    \/ Geq(sec(p), sec(MapGet(bucketMap, bucket)))
                 THEN MapSet(bucketMap, bucket, p)
                 ELSE bucketMap)

RECURSIVE bucketMap1M_Price(_, _, _)
bucketMap1M_Price(s, i, bucketMap) ==
    IF i > Len(s) THEN bucketMap
    ELSE LET p == s[i]
             bucket == FloorDivSec(sec(p), SEVEN_DAYS_SEC)
         IN  bucketMap1M_Price(s, i + 1,
                 IF \/ ~MapHas(bucketMap, bucket)
                    \/ Gt(sec(p), sec(MapGet(bucketMap, bucket)))
                 THEN MapSet(bucketMap, bucket, p)
                 ELSE bucketMap)

\* slip: < for >, a bucket keeps its earliest point
RECURSIVE bucketMap1Y_Price_Earliest(_, _, _, _)
bucketMap1Y_Price_Earliest(s, i, bucketMap, offsetMin) ==
    IF i > Len(s) THEN bucketMap
    ELSE LET p == s[i]
             bucket == MonthBucket(tsMs(p), offsetMin)
         IN  bucketMap1Y_Price_Earliest(s, i + 1,
                 IF \/ ~MapHas(bucketMap, bucket)
                    \/ Lt(tsMs(p), tsMs(MapGet(bucketMap, bucket)))
                 THEN MapSet(bucketMap, bucket, p)
                 ELSE bucketMap,
                 offsetMin)

RECURSIVE bucketMap1Y_Price(_, _, _, _)
bucketMap1Y_Price(s, i, bucketMap, offsetMin) ==
    IF i > Len(s) THEN bucketMap
    ELSE LET p == s[i]
             bucket == MonthBucket(tsMs(p), offsetMin)
         IN  bucketMap1Y_Price(s, i + 1,
                 IF \/ ~MapHas(bucketMap, bucket)
                    \/ Gt(tsMs(p), tsMs(MapGet(bucketMap, bucket)))
                 THEN MapSet(bucketMap, bucket, p)
                 ELSE bucketMap,
                 offsetMin)

\* slip: 1W is downsampled like 1M
downsampleForRange_WeeklyFor1W(s, rng, offsetMin) ==
    IF Len(s) = 0 THEN s
    ELSE IF rng = "1D" THEN s
    ELSE IF rng = "1W" \/ rng = "1M" THEN
        LET vals == MapValues(bucketMap1M_Price(s, 1, <<>>))
        IN  StableSort(vals, [i \in 1..Len(vals) |-> sec(vals[i])])
    ELSE IF rng = "1Y" THEN
        LET vals == MapValues(bucketMap1Y_Price(s, 1, <<>>, offsetMin))
        IN  StableSort(vals, [i \in 1..Len(vals) |-> tsMs(vals[i])])
    ELSE s

downsampleForRange(s, rng, offsetMin) ==
    IF Len(s) = 0 THEN s
    ELSE IF rng = "1D" \/ rng = "1W" THEN s
    ELSE IF rng = "1M" THEN
        LET vals == MapValues(bucketMap1M_Price(s, 1, <<>>))
        IN  StableSort(vals, [i \in 1..Len(vals) |-> sec(vals[i])])
    ELSE IF rng = "1Y" THEN
        LET vals == MapValues(bucketMap1Y_Price(s, 1, <<>>, offsetMin))
        IN  StableSort(vals, [i \in 1..Len(vals) |-> tsMs(vals[i])])
    ELSE s

-----------------------------------------------------------------------------
(* Trade and position screens: lastCloseFromHistory *)

\* <<>> is null, <<c>> is the close c
lastCloseFromHistory(history) ==
    IF Len(history) > 0
    THEN LET sorted == StableSort(history, [i \in 1..Len(history) |-> history[i].timestamp])
         IN  <<sorted[Len(history)].value>>
    ELSE <<>>

-----------------------------------------------------------------------------
(* Previous Home screen: its filterSeriesByRange *)

filterSeriesByRange_Old(s, rng, nowMs) ==
    LET cutoff == Minus(nowMs, RANGE_MS_Old[rng])
    IN  Filter(s, [i \in 1..Len(s) |-> Geq(s[i].timestamp, cutoff)], 1)

-----------------------------------------------------------------------------
(* What a call does to the arrays it is given.  caller is the content of the *)
(* argument array after the call; same tells whether the array returned is   *)
(* the argument array itself.                                               *)

\* slip: series.sort(...).filter(...), the sort orders the argument in place
filterSeriesByRange_frame_SortsArgument(s, rng, nowMs) ==
    [caller |-> StableSort(s, [i \in 1..Len(s) |-> toMs_filterSeriesByRange(s[i])]),
     same   |-> FALSE]

\* series.filter(...) builds an array and .sort(...) orders that array
filterSeriesByRange_frame(s, rng, nowMs) ==
    [caller |-> s, same |-> FALSE]

\* returns its argument for an empty series and for 1D / 1W, and
\* Array.from(...) otherwise
downsampleEquityByRange_frame(s, rng) ==
    [caller |-> s,
     same   |-> (Len(s) = 0 \/ rng = "1D" \/ rng = "1W" \/ ~(rng = "1M" \/ rng = "1Y"))]

filterByRange_frame(s, rng, nowMs) ==
    [caller |-> s, same |-> FALSE]

downsampleForRange_frame(s, rng) ==
    [caller |-> s,
     same   |-> (Len(s) = 0 \/ rng = "1D" \/ rng = "1W" \/ ~(rng = "1M" \/ rng = "1Y"))]

\* [...history] is a copy, .sort(...) orders the copy
lastCloseFromHistory_frame(history) ==
    [caller |-> history, same |-> FALSE]

-----------------------------------------------------------------------------
(* Labels.  A label is written as the tuple of the fields that the format   *)
(* shows; the empty string is <<>>.                                         *)

\* the local date and time of the instant ms
DateParts(ms, offsetMin) ==
    LET local == ms.k + offsetMin * 60
        days  == local \div 86400
        sod   == local % 86400
        z     == days + 719468
        era   == z \div 146097
        doe   == z - era * 146097
        yoe   == (doe - (doe \div 1460) + (doe \div 36524) - (doe \div 146096)) \div 365
        doy   == doe - (365 * yoe + (yoe \div 4) - (yoe \div 100))
        mp    == (5 * doy + 2) \div 153
    IN  [month   |-> YearMonthOfDay(days).month,
         day     |-> doy - ((153 * mp + 2) \div 5) + 1,
         weekday |-> (days + 4) % 7,
         hour    |-> sod \div 3600,
         minute  |-> (sod % 3600) \div 60]

\* EquityChart: formatLabel
formatLabel(ms, rng, offsetMin) ==
    LET d == DateParts(ms, offsetMin)
    IN  IF rng = "1D" THEN <<"hour:minute", d.hour, d.minute>>
        ELSE IF rng = "1W" THEN <<"weekday", d.weekday>>
        ELSE IF rng = "1M" THEN <<"month day", d.month, d.day>>
        ELSE <<"month", d.month>>

\* EquityChart: seriesToChartData
seriesToChartData(s, rng, hidePointLabels, offsetMin) ==
    [i \in 1..Len(s) |->
        [value |-> s[i].value,
         label |-> IF hidePointLabels THEN <<>>
                   ELSE formatLabel(toMs(s[i].timestamp), rng, offsetMin)]]

\* an EquityChart that hides the labels from 6 points (1D) and 7 points (1W) on
EquityChart_HidesAtThreshold(isDefined, s, rng, offsetMin) ==
    IF ~isDefined \/ Len(s) = 0
    THEN [view |-> "empty", chartData |-> <<>>, captions |-> <<>>]
    ELSE LET hide1DXLabels == rng = "1D" /\ Len(s) >= 6
             hide1WXLabels == rng = "1W" /\ Len(s) >= 7
             hidePointLabels == hide1DXLabels \/ hide1WXLabels
         IN  [view      |-> "chart",
              chartData |-> seriesToChartData(s, rng, hidePointLabels, offsetMin),
              captions  |-> (IF hide1DXLabels THEN <<"Today">> ELSE <<>>)
                               \o (IF hide1WXLabels THEN <<"Week">> ELSE <<>>)]

\* EquityChart: what the component returns.  isDefined is FALSE for a series
\* prop that is undefined.
EquityChart(isDefined, s, rng, offsetMin) ==
    IF ~isDefined \/ Len(s) = 0
    THEN [view |-> "empty", chartData |-> <<>>, captions |-> <<>>]
    ELSE LET is1D == rng = "1D"
             is1W == rng = "1W"
             pointCount == Len(s)
             hide1DXLabels == is1D /\ pointCount > 6
             hide1WXLabels == is1W /\ pointCount > 7
             hidePointLabels == hide1DXLabels \/ hide1WXLabels
         IN  [view      |-> "chart",
              chartData |-> seriesToChartData(s, rng, hidePointLabels, offsetMin),
              captions  |-> (IF hide1DXLabels THEN <<"Today">> ELSE <<>>)
                               \o (IF hide1WXLabels THEN <<"Week">> ELSE <<>>)]

\* MarketPriceChart: formatDate
formatDate(ms, offsetMin) ==
    LET d == DateParts(ms, offsetMin)
    IN  <<"month day", d.month, d.day>>

\* MarketPriceChart: seriesToChartData
seriesToChartData_Price(s, offsetMin) ==
    [i \in 1..Len(s) |->
        [value |-> s[i].value,
         label |-> formatDate(IF Gt(s[i].timestamp, E12) THEN s[i].timestamp
                              ELSE Times1000(s[i].timestamp), offsetMin)]]

\* MarketPriceChart: what the component returns once both useMemo have run
MarketPriceChart(isDefined, s, downsampled, offsetMin) ==
    IF ~isDefined \/ Len(s) = 0
    THEN [view |-> "empty", chartData |-> <<>>, captions |-> <<>>]
    ELSE [view      |-> IF Len(downsampled) = 0 THEN "no data" ELSE "chart",
          chartData |-> seriesToChartData_Price(downsampled, offsetMin),
          captions  |-> <<>>]

-----------------------------------------------------------------------------
(* API client.  A response is [ok, body, payload]: ok is res.ok, body is    *)
(* the shape of the text of the response and payload the points of the      *)
(* array in it, if it has one.  A value is [type, items].                   *)

Bodies ==
    {"not JSON", "null", "array", "empty object", "series null",
     "series array", "series object", "prices array"}

ArrayOf(items) ==
    [type |-> "array", items |-> items]

Undefined ==
    [type |-> "undefined", items |-> <<>>]

ObjectValue ==
    [type |-> "object", items |-> <<>>]

Returned(v) ==
    [threw |-> FALSE, value |-> v]

Thrown ==
    [threw |-> TRUE, value |-> Undefined]

\* data.series of the parsed body
SeriesField(res) ==
    IF res.body = "series array" THEN ArrayOf(res.payload)
    ELSE IF res.body = "series object" THEN ObjectValue
    ELSE IF res.body = "series null" THEN [type |-> "null", items |-> <<>>]
    ELSE Undefined

\* x ?? []
OrEmptyArray(v) ==
    IF v.type = "null" \/ v.type = "undefined" THEN ArrayOf(<<>>) ELSE v

getEquitySeries(res) ==
    IF ~res.ok THEN Thrown
    ELSE IF res.body = "not JSON" THEN Thrown
    ELSE IF res.body = "null" THEN Thrown
    ELSE Returned(OrEmptyArray(SeriesField(res)))

\* Home screen, load(): the value given to setSeries
load_setSeries(res) ==
    LET eq == getEquitySeries(res)
    IN  IF eq.threw THEN ArrayOf(<<>>) ELSE OrEmptyArray(eq.value)

getMarketHistory(res) ==
    IF res.body = "not JSON"
    THEN IF ~res.ok THEN Returned(ArrayOf(<<>>)) ELSE Thrown
    ELSE LET isObj == res.body \notin {"null", "array"}
         IN  IF isObj /\ SeriesField(res).type = "array"
                 THEN Returned(SeriesField(res))
             ELSE IF isObj /\ res.body = "prices array"
                 THEN Returned(ArrayOf(res.payload))
             ELSE IF res.body = "array"
                 THEN Returned(ArrayOf(res.payload))
             ELSE Returned(ArrayOf(<<>>))

\* Position screen, load(): the value given to setHistory
load_setHistory(res) ==
    LET r == getMarketHistory(res)
        historyData == IF r.threw THEN ArrayOf(<<>>) ELSE r.value
    IN  IF historyData.type = "array" THEN historyData ELSE ArrayOf(<<>>)

-----------------------------------------------------------------------------
(* The inputs of the model *)

MaxLen ==
    3

\* the longest series of a feed
MaxPoints ==
    9

\* a render in January 1970 with a feed in seconds, one in December 2002,
\* and one four days later, when the 1M window starts on the sixth day of a
\* 7-day bucket
NowEpoch ==
    Num(700000, 0)

NowModern ==
    Num(1040000000, 0)

NowWeekEnd ==
    Num(1040342400, 0)

\* the device's offset from UTC, in minutes
TZOffsets ==
    {0, -300}

\* the raw timestamp of the instant ms, sent in milliseconds
InMs(ms) ==
    ms

\* the raw timestamp of the whole-second instant ms, sent in seconds
InSec(ms) ==
    Num(ms.k \div 1000, ms.k % 1000)

\* n seconds, in milliseconds
Seconds(n) ==
    Num(n, 0)

Timestamps(nowMs, rng) ==
    IF nowMs = NowEpoch
    THEN {Num(0, 0), Num(604, 800), Num(604, 801)}
    ELSE LET c == Minus(nowMs, RANGE_MS[rng])
         IN  { InMs(Minus(c, Num(0, 1))),
               InMs(c),
               InSec(c),
               InSec(Minus(c, Seconds(1))),
               InMs(Minus(c, Seconds(1))),
               InMs(Plus(c, Num(3600, 1))),
               InSec(Plus(nowMs, Seconds(1))),
               InSec(Plus(c, Seconds(9 * 86400))),
               \* for 1Y: 2002-01-01 01:00:00.001 UTC, still 2001 west of it
               InMs(Plus(c, Num(1469200, 1))) }

\* the series of n points over the timestamps ts; the value of a point is
\* its position in the series, so that every point is told from the others
SeriesOver(ts, n) ==
    { [i \in 1..n |-> [timestamp |-> f[i], value |-> i]] : f \in [1..n -> ts] }

\* a feed of n samples, eight to the window of the range, from the start of
\* the window on, sent in milliseconds and in seconds in turn
Feed(nowMs, rng, n) ==
    LET c == Minus(nowMs, RANGE_MS[rng])
        step == RANGE_MS[rng].k \div 8
        at(i) == Plus(c, Seconds((i - 1) * step))
    IN  [i \in 1..n |->
            [timestamp |-> IF i % 2 = 0 THEN InSec(at(i)) ELSE InMs(at(i)),
             value |-> i]]

\* the responses of the server with the points payload, if they have an array
Responses(payloads) ==
    { [ok |-> o, body |-> b, payload |-> pl] :
        o \in BOOLEAN,
        b \in Bodies,
        pl \in payloads }

HasArray(b) ==
    b \in {"array", "series array", "prices array"}

NoResponse ==
    [ok |-> TRUE, body |-> "not JSON", payload |-> <<>>]

NothingRendered ==
    [view |-> "none", chartData |-> <<>>, captions |-> <<>>]

-----------------------------------------------------------------------------
(* The rest of the application while a chart is prepared *)

\* formatQuantity has not been called
NotCalled ==
    <<"not called">>

NoQuantity ==
    [kind |-> "undefined", neg |-> FALSE, m |-> 0]

\* useState<Snapshot | null>(null)
NoSnapshot ==
    [loaded |-> FALSE, id |-> 0, total_equity |-> 0]

FormatIdle ==
    /\ qty = NoQuantity
    /\ formatted = NotCalled

\* selectedSymbol: null
NoOption ==
    [symbol |-> <<>>, name |-> <<>>]

\* error: null
NoError ==
    <<"null">>

NoRequest ==
    [made |-> FALSE, symbol |-> <<>>, quantity |-> NoQuantity]

TradeIdle ==
    /\ screen = "none"
    /\ symbolInput = <<>>
    /\ selectedSymbol = NoOption
    /\ quantity = <<>>
    /\ tradePc = "idle"
    /\ busy = FALSE
    /\ errorState = NoError
    /\ sent = NoRequest
    /\ events = <<>>

\* no forEach runs
NoPass ==
    [active |-> FALSE, array |-> <<>>, len |-> 0, index |-> 0, live |-> FALSE]

\* nothing has been asked of the bus
NoHistory ==
    [expected |-> <<>>, due |-> <<>>, atStart |-> <<>>, notified |-> 0,
     inside |-> FALSE, twice |-> FALSE, pending |-> {}, added |-> {},
     goneInPass |-> {}, goneBefore |-> {}]

BusIdle ==
    /\ listeners = <<>>
    /\ subs = <<>>
    /\ pass = NoPass
    /\ invoked = <<>>
    /\ asked = NoHistory

\* useState<EquitySeriesPoint[]>([]); a series that the server has
\* returned is told by the call that has received it
EmptySeries ==
    [id |-> 0]

\* const EQUITY_CHART_CACHE_MS = 6 * 60 * 60 * 1000
EQUITY_CHART_CACHE_MS ==
    6 * 60 * 60 * 1000

\* Date.now() when the Home screen is mounted
MountTime ==
    4 * EQUITY_CHART_CACHE_MS

HomeIdle ==
    /\ snapshot = NoSnapshot
    /\ loading = TRUE
    /\ refreshing = FALSE
    /\ equitySeries = EmptySeries
    /\ chartLoading = TRUE
    /\ lastEquityFetchRef = 0
    /\ lastEquityValueRef = <<>>
    /\ calls = <<>>
    /\ clock = MountTime
    /\ home = [order |-> <<>>, fetches |-> <<>>, ticks |-> 0]

-----------------------------------------------------------------------------
(* The state machine: a screen is handed a series and renders, or loads one *)

Init ==
    /\ range \in {CHART_RANGES[i] : i \in 1..Len(CHART_RANGES)}
    /\ tz \in TZOffsets
    /\ \/ /\ defined = TRUE
          /\ now \in {NowEpoch, NowModern}
          /\ \E n \in 0..MaxLen : series \in SeriesOver(Timestamps(now, range), n)
       \/ /\ defined = TRUE
          /\ now \in {NowModern, NowWeekEnd}
          /\ \E n \in (MaxLen + 1)..MaxPoints : series = Feed(now, range, n)
       \/ /\ defined = FALSE
          /\ now = NowModern
          /\ series = <<>>
    /\ pc = "input"
    /\ eqFiltered = <<>>
    /\ eqOut = <<>>
    /\ eqAgain = <<>>
    /\ pxFiltered = <<>>
    /\ pxOut = <<>>
    /\ pxAgain = <<>>
    /\ memoRange = range
    /\ lastClose = <<>>
    /\ oldFiltered = <<>>
    /\ sameArray = TRUE
    /\ rendered = NothingRendered
    /\ response = NoResponse
    /\ loaded = ArrayOf(<<>>)
    /\ FormatIdle
    /\ TradeIdle
    /\ BusIdle
    /\ HomeIdle

\* Home: prepareChartData, first stage.  The series state of Home is an
\* array from useState([]) on.
FilterSeriesByRange ==
    /\ pc = "input"
    /\ defined
    /\ eqFiltered' = filterSeriesByRange(series, range, now)
    /\ series' = filterSeriesByRange_frame(series, range, now).caller
    /\ sameArray' = (sameArray /\ filterSeriesByRange_frame(series, range, now).same)
    /\ pc' = "eqFiltered"
    /\ UNCHANGED <<defined, range, now, tz, eqOut, eqAgain, pxFiltered, pxOut,
                   pxAgain, memoRange, lastClose, oldFiltered, rendered,
                   response, loaded>>
    /\ UNCHANGED <<formatVars, tradeVars, busVars, homeVars>>

\* Home: prepareChartData, second stage
DownsampleEquityByRange ==
    /\ pc = "eqFiltered"
    /\ eqOut' = downsampleEquityByRange(eqFiltered, range, tz)
    /\ eqFiltered' = downsampleEquityByRange_frame(eqFiltered, range).caller
    /\ sameArray' = (sameArray /\ downsampleEquityByRange_frame(eqFiltered, range).same)
    /\ pc' = "eqDone"
    /\ UNCHANGED <<series, defined, range, now, tz, eqAgain, pxFiltered,
                   pxOut, pxAgain, memoRange, lastClose, oldFiltered, rendered,
                   response, loaded>>
    /\ UNCHANGED <<formatVars, tradeVars, busVars, homeVars>>

\* Home: prepareChartData on what it returned
PrepareAgain ==
    /\ pc = "eqDone"
    /\ eqAgain' = prepareChartData(eqOut, range, now, tz)
    /\ pc' = "eqAgain"
    /\ UNCHANGED <<series, defined, range, now, tz, eqFiltered, eqOut,
                   pxFiltered, pxOut, pxAgain, memoRange, lastClose,
                   oldFiltered, sameArray, rendered, response, loaded>>
    /\ UNCHANGED <<formatVars, tradeVars, busVars, homeVars>>

\* EquityChart: rendered by Home with what prepareChartData returned, or
\* handed an undefined series
EquityChartRender ==
    /\ \/ /\ pc = "eqDone"
          /\ rendered' = EquityChart(TRUE, eqOut, range, tz)
       \/ /\ pc = "input"
          /\ ~defined
          /\ rendered' = EquityChart(FALSE, series, range, tz)
    /\ pc' = "eqChart"
    /\ UNCHANGED <<series, defined, range, now, tz, eqFiltered, eqOut, eqAgain,
                   pxFiltered, pxOut, pxAgain, memoRange, lastClose,
                   oldFiltered, sameArray, response, loaded>>
    /\ UNCHANGED <<formatVars, tradeVars, busVars, homeVars>>

\* MarketPriceChart: the first useMemo; series.filter of undefined throws
FilterByRange ==
    /\ pc = "input"
    /\ IF defined
       THEN /\ pxFiltered' = filterByRange(series, range, now)
            /\ series' = filterByRange_frame(series, range, now).caller
            /\ sameArray' = (sameArray /\ filterByRange_frame(series, range, now).same)
            /\ pc' = "pxFiltered"
       ELSE /\ pc' = "pxThrew"
            /\ UNCHANGED <<pxFiltered, series, sameArray>>
    /\ memoRange' = range
    /\ UNCHANGED <<defined, range, now, tz, eqFiltered, eqOut, eqAgain, pxOut,
                   pxAgain, lastClose, oldFiltered, rendered, response, loaded>>
    /\ UNCHANGED <<formatVars, tradeVars, busVars, homeVars>>

\* MarketPriceChart: the second useMemo
DownsampleForRange ==
    /\ pc = "pxFiltered"
    /\ pxOut' = downsampleForRange(pxFiltered, range, tz)
    /\ pxFiltered' = downsampleForRange_frame(pxFiltered, range).caller
    /\ sameArray' = (sameArray /\ downsampleForRange_frame(pxFiltered, range).same)
    /\ pc' = "pxDone"
    /\ UNCHANGED <<series, defined, range, now, tz, eqFiltered, eqOut, eqAgain,
                   pxAgain, memoRange, lastClose, oldFiltered, rendered,
                   response, loaded>>
    /\ UNCHANGED <<formatVars, tradeVars, busVars, homeVars>>

\* MarketPriceChart: both stages on what they returned
DownsampleAgain ==
    /\ pc = "pxDone"
    /\ pxAgain' = downsampleForRange(filterByRange(pxOut, range, now), range, tz)
    /\ pc' = "pxAgain"
    /\ UNCHANGED <<series, defined, range, now, tz, eqFiltered, eqOut, eqAgain,
                   pxFiltered, pxOut, memoRange, lastClose, oldFiltered,
                   sameArray, rendered, response, loaded>>
    /\ UNCHANGED <<formatVars, tradeVars, busVars, homeVars>>

\* MarketPriceChart: the rest of the render, after the two useMemo
MarketPriceChartRender ==
    /\ pc = "pxDone"
    /\ rendered' = MarketPriceChart(defined, series, pxOut, tz)
    /\ pc' = "pxChart"
    /\ UNCHANGED <<series, defined, range, now, tz, eqFiltered, eqOut, eqAgain,
                   pxFiltered, pxOut, pxAgain, memoRange, lastClose,
                   oldFiltered, sameArray, response, loaded>>
    /\ UNCHANGED <<formatVars, tradeVars, busVars, homeVars>>

\* the chart stays on the screen for a millisecond
TimePasses ==
    /\ pc = "pxChart"
    /\ now' = Plus(now, Num(0, 1))
    /\ pc' = "pxLater"
    /\ UNCHANGED <<series, defined, range, tz, eqFiltered, eqOut, eqAgain,
                   pxFiltered, pxOut, pxAgain, memoRange, lastClose,
                   oldFiltered, sameArray, rendered, response, loaded>>
    /\ UNCHANGED <<formatVars, tradeVars, busVars, homeVars>>

\* MarketPriceChart: the user presses another range button (setRange)
PressRange ==
    /\ pc = "pxLater"
    /\ \E r \in {CHART_RANGES[i] : i \in 1..Len(CHART_RANGES)} \ {range} :
          range' = r
    /\ pc' = "pxPressed"
    /\ UNCHANGED <<series, defined, now, tz, eqFiltered, eqOut, eqAgain,
                   pxFiltered, pxOut, pxAgain, memoRange, lastClose,
                   oldFiltered, sameArray, rendered, response, loaded>>
    /\ UNCHANGED <<formatVars, tradeVars, busVars, homeVars>>

\* MarketPriceChart: the next render.  The dependencies of the useMemo are
\* [series, range] and [filtered, range]; the series is the same array, so
\* the values are computed again only when the range has changed.
MarketPriceChartRerender ==
    /\ pc \in {"pxLater", "pxPressed"}
    /\ IF memoRange = range
       THEN UNCHANGED <<pxFiltered, pxOut>>
       ELSE /\ pxFiltered' = filterByRange(series, range, now)
            /\ pxOut' = downsampleForRange(filterByRange(series, range, now), range, tz)
    /\ memoRange' = range
    /\ rendered' = MarketPriceChart(defined, series, pxOut', tz)
    /\ pc' = "pxRerendered"
    /\ UNCHANGED <<series, defined, range, now, tz, eqFiltered, eqOut, eqAgain,
                   pxAgain, lastClose, oldFiltered, sameArray, response, loaded>>
    /\ UNCHANGED <<formatVars, tradeVars, busVars, homeVars>>

\* Trade / position screen: the render computes lastCloseFromHistory
LastCloseFromHistory ==
    /\ pc = "input"
    /\ defined
    /\ lastClose' = lastCloseFromHistory(series)
    /\ series' = lastCloseFromHistory_frame(series).caller
    /\ pc' = "lastClose"
    /\ UNCHANGED <<defined, range, now, tz, eqFiltered, eqOut, eqAgain,
                   pxFiltered, pxOut, pxAgain, memoRange, oldFiltered,
                   sameArray, rendered, response, loaded>>
    /\ UNCHANGED <<formatVars, tradeVars, busVars, homeVars>>

\* Previous Home screen: the render filters the series
FilterSeriesByRangeOld ==
    /\ pc = "input"
    /\ defined
    /\ oldFiltered' = filterSeriesByRange_Old(series, range, now)
    /\ pc' = "oldFiltered"
    /\ UNCHANGED <<series, defined, range, now, tz, eqFiltered, eqOut, eqAgain,
                   pxFiltered, pxOut, pxAgain, memoRange, lastClose,
                   sameArray, rendered, response, loaded>>
    /\ UNCHANGED <<formatVars, tradeVars, busVars, homeVars>>

\* Home, load(): the series state is [] from useState; the equity series is
\* requested and the answer put in the state
LoadEquitySeries ==
    /\ pc = "input"
    /\ defined
    /\ Len(series) = 0
    /\ \E res \in Responses(UNION {SeriesOver(Timestamps(now, range), n) : n \in 0..1}) :
          /\ HasArray(res.body) \/ res.payload = <<>>
          /\ response' = res
          /\ loaded' = load_setSeries(res)
    /\ pc' = "eqLoaded"
    /\ UNCHANGED <<series, defined, range, now, tz, eqFiltered, eqOut, eqAgain,
                   pxFiltered, pxOut, pxAgain, memoRange, lastClose,
                   oldFiltered, sameArray, rendered>>
    /\ UNCHANGED <<formatVars, tradeVars, busVars, homeVars>>

\* Position screen, load(): the history state is [] from useState; the
\* market history is requested and the answer put in the state
LoadMarketHistory ==
    /\ pc = "input"
    /\ defined
    /\ Len(series) = 0
    /\ \E res \in Responses(UNION {SeriesOver(Timestamps(now, range), n) : n \in 0..1}) :
          /\ HasArray(res.body) \/ res.payload = <<>>
          /\ response' = res
          /\ loaded' = load_setHistory(res)
    /\ pc' = "pxLoaded"
    /\ UNCHANGED <<series, defined, range, now, tz, eqFiltered, eqOut, eqAgain,
                   pxFiltered, pxOut, pxAgain, memoRange, lastClose,
                   oldFiltered, sameArray, rendered>>
    /\ UNCHANGED <<formatVars, tradeVars, busVars, homeVars>>

Next ==
    \/ FilterSeriesByRange
    \/ DownsampleEquityByRange
    \/ PrepareAgain
    \/ EquityChartRender
    \/ FilterByRange
    \/ DownsampleForRange
    \/ DownsampleAgain
    \/ MarketPriceChartRender
    \/ TimePasses
    \/ PressRange
    \/ MarketPriceChartRerender
    \/ LastCloseFromHistory
    \/ FilterSeriesByRangeOld
    \/ LoadEquitySeries
    \/ LoadMarketHistory

Spec ==
    Init /\ [][Next]_vars

-----------------------------------------------------------------------------
(* The charts while another part of the application runs *)

ChartIdle ==
    /\ series = <<>>
    /\ defined = TRUE
    /\ range = "1M"
    /\ now = NowModern
    /\ tz = 0
    /\ pc = "idle"
    /\ eqFiltered = <<>>
    /\ eqOut = <<>>
    /\ eqAgain = <<>>
    /\ pxFiltered = <<>>
    /\ pxOut = <<>>
    /\ pxAgain = <<>>
    /\ memoRange = "1M"
    /\ lastClose = <<>>
    /\ oldFiltered = <<>>
    /\ sameArray = TRUE
    /\ rendered = NothingRendered
    /\ response = NoResponse
    /\ loaded = ArrayOf(<<>>)

-----------------------------------------------------------------------------
(* formatQuantity (src/utils/format.ts).  A string is a sequence of         *)
(* characters.  A quantity is [kind, neg, m]: for kind "number" it is the   *)
(* number (-1)^neg * m / 100000; the other kinds are NaN, the infinities    *)
(* and a value that is not a number.  Of the quantities with a fifth        *)
(* decimal of 5 only the multiples of 1/32 are taken, which a double holds  *)
(* exactly, so that rounding to 4 decimals decides the tie as toFixed does. *)

DigitChars ==
    <<"0", "1", "2", "3", "4", "5", "6", "7", "8", "9">>

\* the decimal digits of the natural number n
RECURSIVE NatToString(_)
NatToString(n) ==
    IF n < 10 THEN <<DigitChars[n + 1]>>
    ELSE NatToString(n \div 10) \o <<DigitChars[(n % 10) + 1]>>

\* Number.isInteger
IsInteger(q) ==
    q.kind = "number" /\ q.m % 100000 = 0

\* String(qty) of an integer; String(-0) is "0"
StringOfInteger(q) ==
    (IF q.neg /\ q.m # 0 THEN <<"-">> ELSE <<>>) \o NatToString(q.m \div 100000)

\* qty.toFixed(4): the nearest multiple of 1/10000, the larger one of two
\* nearest, of the absolute value; the sign of a negative number is kept
toFixed4(q) ==
    IF q.kind = "Infinity"
    THEN (IF q.neg THEN <<"-">> ELSE <<>>)
            \o <<"I", "n", "f", "i", "n", "i", "t", "y">>
    ELSE LET n == (q.m + 5) \div 10
             f == n % 10000
         IN  (IF q.neg THEN <<"-">> ELSE <<>>)
                \o NatToString(n \div 10000)
                \o <<".">>
                \o <<DigitChars[(f \div 1000) + 1],
                     DigitChars[((f \div 100) % 10) + 1],
                     DigitChars[((f \div 10) % 10) + 1],
                     DigitChars[(f % 10) + 1]>>

\* the suffix of s from position i on matches \.?0+$
MatchesAt(s, i) ==
    \/ /\ s[i] = "."
       /\ i < Len(s)
       /\ \A j \in (i + 1)..Len(s) : s[j] = "0"
    \/ \A j \in i..Len(s) : s[j] = "0"

\* s.replace(/\.?0+$/, ""): the leftmost match is removed
ReplaceTrailingZeros(s) ==
    LET starts == {i \in 1..Len(s) : MatchesAt(s, i)}
    IN  IF starts = {} THEN s
        ELSE SubSeq(s, 1, (CHOOSE i \in starts : \A j \in starts : i <= j) - 1)

\* a formatQuantity with the pattern /0+$/, which has no decimal point
formatQuantity_KeepsPoint(q) ==
    IF q.kind \in {"string", "undefined", "NaN"} THEN <<"0">>
    ELSE IF IsInteger(q) THEN StringOfInteger(q)
    ELSE LET s == toFixed4(q)
             starts == {i \in 1..Len(s) : \A j \in i..Len(s) : s[j] = "0"}
         IN  IF starts = {} THEN s
             ELSE SubSeq(s, 1, (CHOOSE i \in starts : \A j \in starts : i <= j) - 1)

formatQuantity(q) ==
    IF q.kind \in {"string", "undefined", "NaN"} THEN <<"0">>
    ELSE IF IsInteger(q) THEN StringOfInteger(q)
    ELSE LET s == toFixed4(q)
         IN  ReplaceTrailingZeros(s)

\* the integer parts and the hundred-thousandths of the quantities drawn
IntegerParts ==
    {0, 1, 9, 10, 100}

FractionParts ==
    {0, 1, 4, 6, 3125, 10000, 10100, 12346, 45000, 50000, 99994, 99996}

Quantities ==
    { [kind |-> "number", neg |-> s, m |-> i * 100000 + f] :
         s \in BOOLEAN, i \in IntegerParts, f \in FractionParts }
    \cup { [kind |-> k, neg |-> s, m |-> 0] :
         k \in {"NaN", "Infinity", "string", "undefined"}, s \in BOOLEAN }

InitFormat ==
    /\ qty \in Quantities
    /\ formatted = NotCalled
    /\ ChartIdle
    /\ TradeIdle
    /\ BusIdle
    /\ HomeIdle

\* a row of the positions list shows formatQuantity(position.quantity)
FormatQuantity ==
    /\ formatted = NotCalled
    /\ formatted' = formatQuantity(qty)
    /\ UNCHANGED <<qty, chartVars, tradeVars, busVars, homeVars>>

NextFormat ==
    \/ FormatQuantity

SpecFormat ==
    InitFormat /\ [][NextFormat]_vars

-----------------------------------------------------------------------------
(* The screens that make a mutation: the trade screens, the position        *)
(* screen and the piggy-bank screen.  A text is a sequence of characters.   *)

\* String.prototype.trim, for the white space of the texts of the model
RECURSIVE Trim(_)
Trim(t) ==
    IF Len(t) = 0 THEN t
    ELSE IF t[1] = " " THEN Trim(Tail(t))
    ELSE IF t[Len(t)] = " " THEN Trim(SubSeq(t, 1, Len(t) - 1))
    ELSE t

\* toLowerCase and toUpperCase, for the letters of the texts of the model
ToLowerCase(t) ==
    [i \in 1..Len(t) |->
        CASE t[i] = "A" -> "a"
          [] t[i] = "B" -> "b"
          [] t[i] = "X" -> "x"
          [] OTHER -> t[i]]

ToUpperCase(t) ==
    [i \in 1..Len(t) |->
        CASE t[i] = "a" -> "A"
          [] t[i] = "b" -> "B"
          [] t[i] = "x" -> "X"
          [] OTHER -> t[i]]

\* String.prototype.includes
Includes(t, sub) ==
    \E i \in 1..(Len(t) + 1) :
       /\ i + Len(sub) - 1 <= Len(t)
       /\ SubSeq(t, i, i + Len(sub) - 1) = sub

IsDigits(t) ==
    \A i \in 1..Len(t) : \E d \in 1..10 : DigitChars[d] = t[i]

RECURSIVE DigitsToNat(_)
DigitsToNat(t) ==
    IF Len(t) = 0 THEN 0
    ELSE 10 * DigitsToNat(SubSeq(t, 1, Len(t) - 1))
            + (CHOOSE d \in 0..9 : DigitChars[d + 1] = t[Len(t)])

NaN ==
    [kind |-> "NaN", neg |-> FALSE, m |-> 0]

\* Number(text), for texts without exponent or radix prefix and with at most
\* 5 decimals: white space is trimmed, the empty text is 0, a sign, digits
\* and a decimal point make a number, Infinity is Infinity, the rest is NaN
NumberOf(text) ==
    LET t == Trim(text)
        signed == Len(t) > 0 /\ t[1] \in {"-", "+"}
        negative == Len(t) > 0 /\ t[1] = "-"
        body == IF signed THEN Tail(t) ELSE t
        points == {i \in 1..Len(body) : body[i] = "."}
        point == IF points = {} THEN Len(body) + 1
                 ELSE CHOOSE i \in points : \A j \in points : i <= j
        whole == SubSeq(body, 1, point - 1)
        frac == SubSeq(body, point + 1, Len(body))
        scaled == frac \o [i \in 1..(5 - Len(frac)) |-> "0"]
    IN  IF Len(t) = 0 THEN [kind |-> "number", neg |-> FALSE, m |-> 0]
        ELSE IF body = <<"I", "n", "f", "i", "n", "i", "t", "y">>
            THEN [kind |-> "Infinity", neg |-> negative, m |-> 0]
        ELSE IF /\ IsDigits(whole)
                /\ IsDigits(frac)
                /\ Len(whole) + Len(frac) > 0
                /\ Len(frac) <= 5
            THEN [kind |-> "number", neg |-> negative,
                  m |-> DigitsToNat(whole) * 100000 + DigitsToNat(scaled)]
        ELSE NaN

\* qtyNum > 0
IsPositive(q) ==
    \/ q.kind = "Infinity" /\ ~q.neg
    \/ q.kind = "number" /\ ~q.neg /\ q.m > 0

\* an isValidQty without Number.isInteger
isValidQty_NoIntegerTest(q) ==
    q.kind # "NaN" /\ IsPositive(q)

\* trade.tsx:109, position/[symbol].tsx:83, part_006:271
isValidQty(q) ==
    q.kind # "NaN" /\ IsPositive(q) /\ IsInteger(q)

\* trade.tsx:676, and isValid / isRemoveValid of the piggy-bank screen
isValidQty_Positive(q) ==
    q.kind # "NaN" /\ IsPositive(q)

\* the symbols that getSymbolList has returned
symbolList ==
    <<[symbol |-> <<"A">>, name |-> <<"x">>],
      [symbol |-> <<"B">>, name |-> <<"x", "y">>]>>

DROPDOWN_MAX_ITEMS ==
    5

\* `${item.symbol} (${item.name})`
DisplayText(item) ==
    item.symbol \o <<" ", "(">> \o item.name \o <<")">>

\* (selectedSymbol?.symbol ?? symbolInput).trim()
symbolForApi(selected, input) ==
    Trim(IF selected # NoOption THEN selected.symbol ELSE input)

filteredSymbols(input) ==
    LET searchQuery == ToLowerCase(Trim(input))
    IN  IF Len(searchQuery) > 0
        THEN Filter(symbolList,
                    [i \in 1..Len(symbolList) |->
                        \/ Includes(ToLowerCase(symbolList[i].symbol), searchQuery)
                        \/ Includes(ToLowerCase(symbolList[i].name), searchQuery)],
                    1)
        ELSE <<>>

dropdownOptions(input) ==
    LET filtered == filteredSymbols(input)
    IN  SubSeq(filtered, 1, IF Len(filtered) < DROPDOWN_MAX_ITEMS
                            THEN Len(filtered) ELSE DROPDOWN_MAX_ITEMS)

showDropdown(selected, input) ==
    /\ Len(Trim(input)) > 0
    /\ Len(dropdownOptions(input)) > 0
    /\ (selected = NoOption \/ input # DisplayText(selected))

Screens ==
    {"tradeFirst", "trade", "tradePositive", "tradeDropdown", "position",
     "piggyAdd", "piggyRemove"}

\* the symbol that the screen passes to placeTrade
SymbolOfRequest ==
    CASE screen = "tradeDropdown" -> symbolForApi(selectedSymbol, symbolInput)
      [] screen = "position" -> ToUpperCase(Trim(symbolInput))
      [] screen \in {"piggyAdd", "piggyRemove"} -> <<>>
      [] OTHER -> symbolInput

\* canSubmit / canRemove of the render
canSubmit ==
    LET qtyNum == NumberOf(quantity)
    IN  CASE screen = "tradeFirst" -> TRUE
          [] screen = "trade" -> isValidQty(qtyNum)
          [] screen = "tradePositive" -> isValidQty_Positive(qtyNum)
          [] screen = "tradeDropdown" ->
                Len(symbolForApi(selectedSymbol, symbolInput)) > 0 /\ isValidQty(qtyNum)
          [] screen = "position" -> isValidQty(qtyNum) /\ ~busy
          [] OTHER -> isValidQty_Positive(qtyNum) /\ ~busy

\* the texts that the user types in the symbol field
SymbolTexts ==
    { <<>>, <<" ">>, <<"A">>, <<"a">>, <<" ", "A", " ">>, <<"x">>, <<"Z">>,
      <<"A", " ", "(", "x">>,
      <<"A", " ", "(", "x", ")">>,
      <<"B", " ", "(", "x", "y", ")">>,
      <<"A", " ", "(", "x", ")", " ">> }

\* the texts that the user types in the quantity or amount field
QuantityTexts ==
    { <<>>, <<" ">>, <<"0">>, <<"1">>, <<"2">>, <<"1", "0">>, <<"-", "1">>,
      <<"+", "2">>, <<"1", ".", "5">>, <<"2", ".", "0">>, <<"0", ".", "5">>,
      <<"3", ".">>, <<".", "5">>, <<".">>, <<"-">>, <<"a", "b">>, <<"1", "a">>,
      <<" ", "3", " ">>, <<"1", " ", "2">>,
      <<"I", "n", "f", "i", "n", "i", "t", "y">> }

InitTrade ==
    /\ screen \in Screens
    /\ symbolInput =
          (CASE screen \in {"tradeFirst", "trade", "tradePositive"} ->
                   <<"A", "A", "P", "L">>
             [] OTHER -> <<>>)
    /\ selectedSymbol = NoOption
    /\ quantity = (IF screen \in {"piggyAdd", "piggyRemove"} THEN <<>> ELSE <<"1">>)
    /\ tradePc = "idle"
    /\ busy = FALSE
    /\ errorState = NoError
    /\ sent = NoRequest
    /\ events = <<>>
    /\ ChartIdle
    /\ FormatIdle
    /\ BusIdle
    /\ HomeIdle

\* the position screen is opened for the symbol of the route
OpenPosition ==
    /\ screen = "position"
    /\ tradePc = "idle"
    /\ symbolInput = <<>>
    /\ symbolInput' \in {<<"a">>, <<" ", "A", " ">>}
    /\ UNCHANGED <<screen, selectedSymbol, quantity, tradePc, busy, errorState,
                   sent, events>>
    /\ UNCHANGED <<chartVars, formatVars, busVars, homeVars>>

\* onChangeText of the symbol field: handleSymbolChangeText, or setSymbol
\* and setError(null)
TypeSymbol ==
    /\ screen \in {"tradeFirst", "trade", "tradePositive", "tradeDropdown"}
    /\ tradePc = "idle"
    /\ \E t \in SymbolTexts :
          /\ symbolInput' = t
          /\ selectedSymbol' =
                IF /\ screen = "tradeDropdown"
                   /\ selectedSymbol # NoOption
                   /\ t # DisplayText(selectedSymbol)
                THEN NoOption
                ELSE selectedSymbol
    /\ errorState' = NoError
    /\ UNCHANGED <<screen, quantity, tradePc, busy, sent, events>>
    /\ UNCHANGED <<chartVars, formatVars, busVars, homeVars>>

\* a row of the dropdown is pressed: handleSymbolSelect
SelectSymbol ==
    /\ screen = "tradeDropdown"
    /\ tradePc = "idle"
    /\ showDropdown(selectedSymbol, symbolInput)
    /\ \E i \in 1..Len(dropdownOptions(symbolInput)) :
          /\ selectedSymbol' = dropdownOptions(symbolInput)[i]
          /\ symbolInput' = DisplayText(dropdownOptions(symbolInput)[i])
    /\ UNCHANGED <<screen, quantity, tradePc, busy, errorState, sent, events>>
    /\ UNCHANGED <<chartVars, formatVars, busVars, homeVars>>

\* onChangeText of the quantity or amount field
TypeQuantity ==
    /\ screen # "none"
    /\ tradePc = "idle"
    /\ \E t \in QuantityTexts : quantity' = t
    /\ errorState' = NoError
    /\ UNCHANGED <<screen, symbolInput, selectedSymbol, tradePc, busy, sent, events>>
    /\ UNCHANGED <<chartVars, formatVars, busVars, homeVars>>

\* confirmTrade / handleRemovePress: the Alert with Cancel and the action
ConfirmTrade ==
    /\ screen \in {"trade", "tradePositive", "tradeDropdown", "position", "piggyRemove"}
    /\ tradePc = "idle"
    /\ canSubmit
    /\ tradePc' = "confirm"
    /\ UNCHANGED <<screen, symbolInput, selectedSymbol, quantity, busy,
                   errorState, sent, events>>
    /\ UNCHANGED <<chartVars, formatVars, busVars, homeVars>>

CancelTrade ==
    /\ tradePc = "confirm"
    /\ tradePc' = "idle"
    /\ events' = <<"cancel">>
    /\ UNCHANGED <<screen, symbolInput, selectedSymbol, quantity, busy,
                   errorState, sent>>
    /\ UNCHANGED <<chartVars, formatVars, busVars, homeVars>>

\* submit / handleAddCash / handleRemoveCash up to the await of the request
Submit ==
    /\ \/ tradePc = "confirm"
       \/ tradePc = "idle" /\ screen \in {"tradeFirst", "piggyAdd"}
    /\ IF ~canSubmit \/ (screen = "position" /\ Len(SymbolOfRequest) = 0)
       THEN /\ tradePc' = "idle"
            /\ UNCHANGED <<busy, errorState, sent, events>>
       ELSE /\ errorState' = NoError
            /\ busy' = (screen \in {"position", "piggyAdd", "piggyRemove"})
            /\ sent' = [made |-> TRUE,
                        symbol |-> SymbolOfRequest,
                        quantity |-> NumberOf(quantity)]
            /\ events' = <<"request">>
            /\ tradePc' = "awaiting"
    /\ UNCHANGED <<screen, symbolInput, selectedSymbol, quantity>>
    /\ UNCHANGED <<chartVars, formatVars, busVars, homeVars>>

\* the request is fulfilled: notifyPortfolioChanged, then on the position
\* screen the await of load(), on the others the rest of the try block
RequestSucceeds ==
    /\ tradePc = "awaiting"
    /\ IF screen = "position"
       THEN /\ events' = events \o <<"response ok", "notify">>
            /\ tradePc' = "reloading"
            /\ UNCHANGED <<busy, quantity>>
       ELSE /\ events' = events \o <<"response ok", "notify", "alert success">>
            /\ tradePc' = "done"
            /\ busy' = FALSE
            /\ quantity' = (IF screen \in {"piggyAdd", "piggyRemove"}
                            THEN <<>> ELSE quantity)
    /\ UNCHANGED <<screen, symbolInput, selectedSymbol, errorState, sent>>
    /\ UNCHANGED <<chartVars, formatVars, busVars, homeVars>>

\* position screen: load() has returned; the alert and the finally block
ReloadDone ==
    /\ tradePc = "reloading"
    /\ events' = events \o <<"alert success">>
    /\ busy' = FALSE
    /\ tradePc' = "done"
    /\ UNCHANGED <<screen, symbolInput, selectedSymbol, quantity, errorState, sent>>
    /\ UNCHANGED <<chartVars, formatVars, busVars, homeVars>>

\* the request is rejected: the catch block and the finally block
RequestFails ==
    /\ tradePc = "awaiting"
    /\ errorState' = (IF screen = "tradeFirst" THEN errorState
                      ELSE <<"message">>)
    /\ events' = events \o <<"response error", "alert error">>
    /\ busy' = FALSE
    /\ tradePc' = "done"
    /\ UNCHANGED <<screen, symbolInput, selectedSymbol, quantity, sent>>
    /\ UNCHANGED <<chartVars, formatVars, busVars, homeVars>>

NextTrade ==
    \/ OpenPosition
    \/ TypeSymbol
    \/ SelectSymbol
    \/ TypeQuantity
    \/ ConfirmTrade
    \/ CancelTrade
    \/ Submit
    \/ RequestSucceeds
    \/ ReloadDone
    \/ RequestFails

SpecTrade ==
    InitTrade /\ [][NextTrade]_vars

-----------------------------------------------------------------------------
(* portfolioEvents (src/unnamed/part_000:1-13): the bus that tells the       *)
(* screens that the portfolio has changed.  A listener is a number.  An      *)
(* array is a list with an identity: an operation on it gives the list that  *)
(* results and tells whether it is still the same array.  asked records      *)
(* the calls made: expected is the list of the distinct listeners            *)
(* subscribed and not unsubscribed since, in the order of subscription, due  *)
(* and atStart are expected and listeners when the last notify began,        *)
(* pending the listeners unsubscribed in the pass before their turn, added   *)
(* the listeners subscribed in the pass, goneInPass the listeners            *)
(* unsubscribed in a pass and not subscribed since.                          *)

MaxSubscribe ==
    3

MaxNotify ==
    2

\* the functions that are subscribed: export type Listener = () => void
Listener ==
    {1, 2, 3}

\* listeners.push(listener)
push(array, listener) ==
    [list |-> Append(array, listener), same |-> TRUE]

\* a removal that splices the array that is being iterated
unsubscribe_InPlace(array, listener) ==
    [list |-> SelectSeq(array, LAMBDA l : l # listener), same |-> TRUE]

\* listeners = listeners.filter((l) => l !== listener)
unsubscribe(array, listener) ==
    [list |-> SelectSeq(array, LAMBDA l : l # listener), same |-> FALSE]

\* Array.prototype.forEach: the next index, and the end at the length that
\* the array had when the iteration began
Advance(p) ==
    [p EXCEPT !.index = p.index + 1, !.active = p.index + 1 < p.len]

\* forEach calls the callback for the indexes that the array still has
Present(p) ==
    p.index + 1 <= Len(p.array)

\* the array that forEach iterates after a call on the array of the bus
Iterated(p, result) ==
    IF p.live /\ result.same THEN result.list ELSE p.array

InitBus ==
    /\ ChartIdle
    /\ FormatIdle
    /\ TradeIdle
    /\ BusIdle
    /\ HomeIdle

\* subscribePortfolioChanged(listener), called outside a listener
Subscribe ==
    \E l \in Listener :
        /\ ~pass.active
        /\ Len(subs) < MaxSubscribe
        /\ listeners' = push(listeners, l).list
        /\ subs' = Append(subs, [listener |-> l, called |-> FALSE])
        /\ asked' = [asked EXCEPT
               !.expected = IF \E j \in DOMAIN @ : @[j] = l
                            THEN @ ELSE Append(@, l),
               !.twice = @ \/ (\E i \in DOMAIN subs : subs[i].listener = l),
               !.goneInPass = @ \ {l}]
        /\ UNCHANGED <<pass, invoked>>
        /\ UNCHANGED <<chartVars, formatVars, tradeVars, homeVars>>

\* a call of a function that subscribePortfolioChanged has returned, outside
\* a listener
Unsubscribe ==
    \E i \in DOMAIN subs :
        LET l == subs[i].listener IN
        /\ ~pass.active
        /\ listeners' = unsubscribe(listeners, l).list
        /\ subs' = [subs EXCEPT ![i].called = TRUE]
        /\ asked' = [asked EXCEPT
               !.expected = IF ~subs[i].called
                            THEN SelectSeq(@, LAMBDA x : x # l) ELSE @]
        /\ UNCHANGED <<pass, invoked>>
        /\ UNCHANGED <<chartVars, formatVars, tradeVars, homeVars>>

\* notifyPortfolioChanged(), called outside a listener: forEach begins
Notify ==
    /\ ~pass.active
    /\ asked.notified < MaxNotify
    /\ pass' = [active |-> Len(listeners) > 0, array |-> listeners,
                len |-> Len(listeners), index |-> 0, live |-> TRUE]
    /\ invoked' = <<>>
    /\ asked' = [asked EXCEPT
           !.notified = @ + 1,
           !.due = asked.expected,
           !.atStart = listeners,
           !.pending = {},
           !.added = {},
           !.goneBefore = asked.goneInPass]
    /\ UNCHANGED <<listeners, subs>>
    /\ UNCHANGED <<chartVars, formatVars, tradeVars, homeVars>>

\* forEach comes to the next index and calls (l) => l(); the listener
\* makes no call to the bus
ListenerReturns ==
    /\ pass.active
    /\ pass' = Advance(pass)
    /\ invoked' = (IF Present(pass)
                   THEN Append(invoked, pass.array[pass.index + 1])
                   ELSE invoked)
    /\ UNCHANGED <<listeners, subs, asked>>
    /\ UNCHANGED <<chartVars, formatVars, tradeVars, homeVars>>

\* forEach calls a listener that subscribes a listener
ListenerSubscribes ==
    \E l \in Listener :
        LET result == push(listeners, l) IN
        /\ pass.active
        /\ Present(pass)
        /\ Len(subs) < MaxSubscribe
        /\ invoked' = Append(invoked, pass.array[pass.index + 1])
        /\ listeners' = result.list
        /\ subs' = Append(subs, [listener |-> l, called |-> FALSE])
        /\ pass' = Advance([pass EXCEPT !.array = Iterated(pass, result)])
        /\ asked' = [asked EXCEPT
               !.expected = IF \E j \in DOMAIN @ : @[j] = l
                            THEN @ ELSE Append(@, l),
               !.twice = @ \/ (\E i \in DOMAIN subs : subs[i].listener = l),
               !.inside = TRUE,
               !.added = @ \cup {l},
               !.goneInPass = @ \ {l}]
        /\ UNCHANGED <<chartVars, formatVars, tradeVars, homeVars>>

\* forEach calls a listener that calls an unsubscribe function
ListenerUnsubscribes ==
    \E i \in DOMAIN subs :
        LET l == subs[i].listener
            result == unsubscribe(listeners, l)
            k == pass.index + 1
            waits == \E j \in (k + 1) .. pass.len :
                         j <= Len(pass.array) /\ pass.array[j] = l
        IN  /\ pass.active
            /\ Present(pass)
            /\ invoked' = Append(invoked, pass.array[k])
            /\ listeners' = result.list
            /\ subs' = [subs EXCEPT ![i].called = TRUE]
            /\ pass' = Advance([pass EXCEPT
                   !.array = Iterated(pass, result),
                   !.live = @ /\ result.same])
            /\ asked' = [asked EXCEPT
                   !.expected = IF ~subs[i].called
                                THEN SelectSeq(@, LAMBDA x : x # l) ELSE @,
                   !.inside = TRUE,
                   !.pending = IF waits /\ l # pass.array[k]
                               THEN @ \cup {l} ELSE @,
                   !.goneInPass = @ \cup {l}]
            /\ UNCHANGED <<chartVars, formatVars, tradeVars, homeVars>>

NextBus ==
    \/ Subscribe
    \/ Unsubscribe
    \/ Notify
    \/ ListenerReturns
    \/ ListenerSubscribes
    \/ ListenerUnsubscribes

SpecBus ==
    InitBus /\ [][NextBus]_vars

-----------------------------------------------------------------------------
(* Home screen (src/app/(tabs)/index.tsx:93-178): load, onRefresh and        *)
(* handleRefreshMarket.  A call is [pc, data, with, series]: pc is where the *)
(* call waits ("market" for refreshMarket, "snapshot" for getSnapshot,       *)
(* "series" for getEquitySeries, "done"), data the snapshot it has received, *)
(* with the loads that were waiting when its load began, series whether it   *)
(* has received a series.  A snapshot and a series are told by the call      *)
(* that has received them.                                                   *)

MaxLoads ==
    2

MaxTicks ==
    2

\* the values of total_equity that the server returns
Equities ==
    {100, 101}

\* the steps of the clock
Steps ==
    {1, EQUITY_CHART_CACHE_MS - 1}

\* the loads that wait for a response
InFlight(cs) ==
    {c \in DOMAIN cs : cs[c].pc \in {"snapshot", "series"}}

\* load() begins: the call waits for getSnapshot
LoadBegins(cs) ==
    [pc |-> "snapshot", data |-> NoSnapshot, with |-> InFlight(cs),
     series |-> FALSE]

\* shouldFetchEquity of load
shouldFetchEquity(nowMs, lastFetch, lastValue, data) ==
    \/ lastFetch = 0
    \/ nowMs - lastFetch >= EQUITY_CHART_CACHE_MS
    \/ <<data.total_equity>> # lastValue

\* a finally that leaves refreshing as it is
LoadFinally_KeepsRefreshing(flags) ==
    [loading |-> FALSE, refreshing |-> flags.refreshing]

\* finally { setLoading(false); setRefreshing(false); }
LoadFinally(flags) ==
    [loading |-> FALSE, refreshing |-> FALSE]

InitHome ==
    /\ ChartIdle
    /\ FormatIdle
    /\ TradeIdle
    /\ BusIdle
    /\ HomeIdle

\* load(), called by the effect at mount or by the listener of the bus
Load ==
    /\ Len(calls) < MaxLoads
    /\ loading' = TRUE
    /\ calls' = Append(calls, LoadBegins(calls))
    /\ home' = [home EXCEPT !.order = Append(@, Len(calls) + 1)]
    /\ UNCHANGED <<snapshot, refreshing, equitySeries, chartLoading,
                   lastEquityFetchRef, lastEquityValueRef, clock>>
    /\ UNCHANGED <<chartVars, formatVars, tradeVars, busVars>>

\* onRefresh, of the RefreshControl of the list that shows a snapshot
OnRefresh ==
    /\ snapshot.loaded
    /\ Len(calls) < MaxLoads
    /\ refreshing' = TRUE
    /\ loading' = TRUE
    /\ calls' = Append(calls, LoadBegins(calls))
    /\ home' = [home EXCEPT !.order = Append(@, Len(calls) + 1)]
    /\ UNCHANGED <<snapshot, equitySeries, chartLoading,
                   lastEquityFetchRef, lastEquityValueRef, clock>>
    /\ UNCHANGED <<chartVars, formatVars, tradeVars, busVars>>

\* handleRefreshMarket, up to await refreshMarket()
HandleRefreshMarket ==
    /\ snapshot.loaded
    /\ Len(calls) < MaxLoads
    /\ loading' = TRUE
    /\ calls' = Append(calls, [pc |-> "market", data |-> NoSnapshot,
                               with |-> {}, series |-> FALSE])
    /\ UNCHANGED <<snapshot, refreshing, equitySeries, chartLoading,
                   lastEquityFetchRef, lastEquityValueRef, clock, home>>
    /\ UNCHANGED <<chartVars, formatVars, tradeVars, busVars>>

\* refreshMarket() resolves: await load() begins
MarketRefreshed ==
    \E c \in DOMAIN calls :
        /\ calls[c].pc = "market"
        /\ loading' = TRUE
        /\ calls' = [calls EXCEPT ![c] = LoadBegins(calls)]
        /\ home' = [home EXCEPT !.order = Append(@, c)]
        /\ UNCHANGED <<snapshot, refreshing, equitySeries, chartLoading,
                       lastEquityFetchRef, lastEquityValueRef, clock>>
        /\ UNCHANGED <<chartVars, formatVars, tradeVars, busVars>>

\* refreshMarket() rejects: catch, finally { setLoading(false) }
MarketRefreshFails ==
    \E c \in DOMAIN calls :
        /\ calls[c].pc = "market"
        /\ loading' = FALSE
        /\ calls' = [calls EXCEPT ![c].pc = "done"]
        /\ UNCHANGED <<snapshot, refreshing, equitySeries, chartLoading,
                       lastEquityFetchRef, lastEquityValueRef, clock, home>>
        /\ UNCHANGED <<chartVars, formatVars, tradeVars, busVars>>

\* getSnapshot() resolves: setSnapshot(data), then the request for the
\* equity series, or the end of the load
SnapshotArrives ==
    \E c \in DOMAIN calls, e \in Equities :
        LET data == [loaded |-> TRUE, id |-> c, total_equity |-> e]
            fetch == shouldFetchEquity(clock, lastEquityFetchRef,
                                       lastEquityValueRef, data)
            flags == LoadFinally([loading |-> loading,
                                  refreshing |-> refreshing])
        IN  /\ calls[c].pc = "snapshot"
            /\ snapshot' = data
            /\ IF fetch
               THEN /\ chartLoading' = TRUE
                    /\ calls' = [calls EXCEPT ![c].pc = "series",
                                              ![c].data = data]
                    /\ home' = [home EXCEPT !.fetches = Append(@, clock)]
                    /\ UNCHANGED <<loading, refreshing>>
               ELSE /\ chartLoading' = FALSE
                    /\ calls' = [calls EXCEPT ![c].pc = "done",
                                              ![c].data = data]
                    /\ loading' = flags.loading
                    /\ refreshing' = flags.refreshing
                    /\ UNCHANGED home
            /\ UNCHANGED <<equitySeries, lastEquityFetchRef,
                           lastEquityValueRef, clock>>
            /\ UNCHANGED <<chartVars, formatVars, tradeVars, busVars>>

\* getSnapshot() rejects: catch, finally
SnapshotFails ==
    \E c \in DOMAIN calls :
        LET flags == LoadFinally([loading |-> loading,
                                  refreshing |-> refreshing])
        IN  /\ calls[c].pc = "snapshot"
            /\ calls' = [calls EXCEPT ![c].pc = "done"]
            /\ loading' = flags.loading
            /\ refreshing' = flags.refreshing
            /\ UNCHANGED <<snapshot, equitySeries, chartLoading,
                           lastEquityFetchRef, lastEquityValueRef, clock,
                           home>>
            /\ UNCHANGED <<chartVars, formatVars, tradeVars, busVars>>

\* getEquitySeries() resolves: setSeries, the two refs, the two finally
SeriesArrives ==
    \E c \in DOMAIN calls :
        LET flags == LoadFinally([loading |-> loading,
                                  refreshing |-> refreshing])
        IN  /\ calls[c].pc = "series"
            /\ equitySeries' = [id |-> c]
            /\ lastEquityFetchRef' = clock
            /\ lastEquityValueRef' = <<calls[c].data.total_equity>>
            /\ chartLoading' = FALSE
            /\ calls' = [calls EXCEPT ![c].pc = "done", ![c].series = TRUE]
            /\ loading' = flags.loading
            /\ refreshing' = flags.refreshing
            /\ UNCHANGED <<snapshot, clock, home>>
            /\ UNCHANGED <<chartVars, formatVars, tradeVars, busVars>>

\* getEquitySeries() rejects: setSeries([]), the two finally
SeriesFails ==
    \E c \in DOMAIN calls :
        LET flags == LoadFinally([loading |-> loading,
                                  refreshing |-> refreshing])
        IN  /\ calls[c].pc = "series"
            /\ equitySeries' = EmptySeries
            /\ chartLoading' = FALSE
            /\ calls' = [calls EXCEPT ![c].pc = "done"]
            /\ loading' = flags.loading
            /\ refreshing' = flags.refreshing
            /\ UNCHANGED <<snapshot, lastEquityFetchRef, lastEquityValueRef,
                           clock, home>>
            /\ UNCHANGED <<chartVars, formatVars, tradeVars, busVars>>

\* the clock of the device advances
HomeTimePasses ==
    \E d \in Steps :
        /\ home.ticks < MaxTicks
        /\ clock' = clock + d
        /\ home' = [home EXCEPT !.ticks = @ + 1]
        /\ UNCHANGED <<snapshot, loading, refreshing, equitySeries,
                       chartLoading, lastEquityFetchRef, lastEquityValueRef,
                       calls>>
        /\ UNCHANGED <<chartVars, formatVars, tradeVars, busVars>>

NextHome ==
    \/ Load
    \/ OnRefresh
    \/ HandleRefreshMarket
    \/ MarketRefreshed
    \/ MarketRefreshFails
    \/ SnapshotArrives
    \/ SnapshotFails
    \/ SeriesArrives
    \/ SeriesFails
    \/ HomeTimePasses

SpecHome ==
    InitHome /\ [][NextHome]_vars

-----------------------------------------------------------------------------
(* Vocabulary of the properties *)

\* the normalized millisecond instant of a point
Instant(p) ==
    toMs(p.timestamp)

\* now - RANGE_MS[range]
Cutoff ==
    Minus(now, RANGE_MS[range])

InWindow(p) ==
    Geq(Instant(p), Cutoff)

Occurs(p, s) ==
    \E j \in 1..Len(s) : s[j] = p

\* the points of s that are in the window, as a set
Windowed(s) ==
    {s[i] : i \in {j \in 1..Len(s) : InWindow(s[j])}}

Elements(s) ==
    {s[i] : i \in 1..Len(s)}

\* floor(timestamp_seconds / 604800)
WeekBucket(p) ==
    Instant(p).k \div 604800

\* year * 12 + month of the local calendar
CalendarBucket(p) ==
    MonthBucket(Instant(p), tz)

Ascending(s) ==
    \A i, j \in 1..Len(s) : i < j => ~Lt(Instant(s[j]), Instant(s[i]))

InSeconds(p) ==
    ~Gt(p.timestamp, E12)

-----------------------------------------------------------------------------
\* C1: the range filter of the Home screen and the one of MarketPriceChart
\* keep a point if and only if its normalized millisecond instant is
\* >= now - RANGE_MS[range]: the cutoff itself is kept, 1 ms before it is
\* dropped, a point later than now is kept; nothing else is in the result.
C1_FilterKeepsExactlyWindow ==
    /\ pc = "eqFiltered" =>
          /\ Elements(eqFiltered) = Windowed(series)
          /\ Len(eqFiltered) = Cardinality(Windowed(series))
    /\ pc = "pxFiltered" =>
          /\ Elements(pxFiltered) = Windowed(series)
          /\ Len(pxFiltered) = Cardinality(Windowed(series))

\* a point at the cutoff and a future point kept, a point 1 ms early dropped
C1_Witness ==
    /\ pc = "eqFiltered"
    /\ \E a, b, c \in Elements(series) :
          /\ Instant(a) = Cutoff /\ Occurs(a, eqFiltered)
          /\ Instant(b) = Minus(Cutoff, Num(0, 1)) /\ ~Occurs(b, eqFiltered)
          /\ Gt(Instant(c), now) /\ Occurs(c, eqFiltered)

\* C2: for every series and range the output of filter-then-downsample is
\* in non-decreasing order of normalized timestamp, in both copies.
C2_OutputAscending ==
    /\ pc = "eqDone" => Ascending(eqOut)
    /\ pc = "pxDone" => Ascending(pxOut)

\* an unordered input with a duplicate instant in both units, all in the output
C2_Witness ==
    /\ pc = "eqDone"
    /\ Len(eqOut) = 3
    /\ Lt(Instant(series[2]), Instant(series[1]))
    /\ \E i, j \in 1..Len(series) :
          /\ InSeconds(series[i]) /\ ~InSeconds(series[j])
          /\ Instant(series[i]) = Instant(series[j])

\* C3: for 1M no two output points are in the same 7-day bucket, every output
\* point has the latest normalized timestamp of the windowed input points of
\* its bucket, and [(0,10),(604800,20),(604801,30)] gives the first and the
\* third point.
C3_WeekBuckets ==
    /\ (pc = "eqDone" /\ range = "1M") =>
          /\ \A i, j \in 1..Len(eqOut) :
                WeekBucket(eqOut[i]) = WeekBucket(eqOut[j]) => i = j
          /\ \A i \in 1..Len(eqOut) : \A q \in Windowed(series) :
                WeekBucket(q) = WeekBucket(eqOut[i])
                    => Geq(Instant(eqOut[i]), Instant(q))
          /\ Elements(eqOut) \subseteq Windowed(series)
    /\ (pc = "pxDone" /\ range = "1M") =>
          /\ \A i, j \in 1..Len(pxOut) :
                WeekBucket(pxOut[i]) = WeekBucket(pxOut[j]) => i = j
          /\ \A i \in 1..Len(pxOut) : \A q \in Windowed(series) :
                WeekBucket(q) = WeekBucket(pxOut[i])
                    => Geq(Instant(pxOut[i]), Instant(q))
          /\ Elements(pxOut) \subseteq Windowed(series)
    /\ (/\ pc \in {"eqDone", "pxDone"}
        /\ range = "1M"
        /\ now = NowEpoch
        /\ Len(series) = 3
        /\ series[1].timestamp = Num(0, 0)
        /\ series[2].timestamp = Num(604, 800)
        /\ series[3].timestamp = Num(604, 801)) =>
          LET out == IF pc = "eqDone" THEN eqOut ELSE pxOut
          IN  out = <<series[1], series[3]>>

\* the series of the example has been prepared
C3_Witness ==
    /\ pc = "eqDone"
    /\ range = "1M"
    /\ now = NowEpoch
    /\ Len(series) = 3
    /\ series[1].timestamp = Num(0, 0)
    /\ series[2].timestamp = Num(604, 800)
    /\ series[3].timestamp = Num(604, 801)
    /\ Len(eqOut) = 2

\* C4: for 1Y no two output points are in the same calendar month
\* (year * 12 + month), and every output point has the latest normalized
\* timestamp of the windowed input points of its month.
C4_MonthBuckets ==
    /\ (pc = "eqDone" /\ range = "1Y") =>
          /\ \A i, j \in 1..Len(eqOut) :
                CalendarBucket(eqOut[i]) = CalendarBucket(eqOut[j]) => i = j
          /\ \A i \in 1..Len(eqOut) : \A q \in Windowed(series) :
                CalendarBucket(q) = CalendarBucket(eqOut[i])
                    => Geq(Instant(eqOut[i]), Instant(q))
          /\ Elements(eqOut) \subseteq Windowed(series)
    /\ (pc = "pxDone" /\ range = "1Y") =>
          /\ \A i, j \in 1..Len(pxOut) :
                CalendarBucket(pxOut[i]) = CalendarBucket(pxOut[j]) => i = j
          /\ \A i \in 1..Len(pxOut) : \A q \in Windowed(series) :
                CalendarBucket(q) = CalendarBucket(pxOut[i])
                    => Geq(Instant(pxOut[i]), Instant(q))
          /\ Elements(pxOut) \subseteq Windowed(series)

\* two months in the output, one of them with an earlier point left out
C4_Witness ==
    /\ pc = "pxDone"
    /\ range = "1Y"
    /\ Len(pxOut) = 2
    /\ \E q \in Windowed(series) :
          /\ ~Occurs(q, pxOut)
          /\ \E i \in 1..2 : /\ CalendarBucket(pxOut[i]) = CalendarBucket(q)
                             /\ Gt(Instant(pxOut[i]), Instant(q))

\* the windowed points i of s that no windowed point of the same bucket is
\* later than, bucket being the grouping of the range
LatestOfBucket(s, i, Bucket(_)) ==
    /\ InWindow(s[i])
    /\ \A q \in Windowed(s) :
          Bucket(q) = Bucket(s[i]) => Geq(Instant(s[i]), Instant(q))

\* C5 as stated: for 1M, of two points of a 7-day bucket with the same
\* normalized timestamp, the latest of the bucket, the output has the one
\* that is later in the input.
C5_TieKeepsLaterInInput ==
    /\ (pc = "eqDone" /\ range = "1M") =>
          \A i, j \in 1..Len(series) :
             (/\ i < j
              /\ Instant(series[i]) = Instant(series[j])
              /\ LatestOfBucket(series, i, WeekBucket))
                => Occurs(series[j], eqOut)
    /\ (pc = "pxDone" /\ range = "1M") =>
          \A i, j \in 1..Len(series) :
             (/\ i < j
              /\ Instant(series[i]) = Instant(series[j])
              /\ LatestOfBucket(series, i, WeekBucket))
                => Occurs(series[j], pxOut)

\* C5 amended: for 1M, of the points of a 7-day bucket with the same
\* normalized timestamp, the latest of the bucket, the output has the one
\* that is first in the input and none of the later ones.
C5_TieKeepsFirstInInput ==
    /\ (pc = "eqDone" /\ range = "1M") =>
          \A i, j \in 1..Len(series) :
             (/\ i < j
              /\ Instant(series[i]) = Instant(series[j])
              /\ LatestOfBucket(series, i, WeekBucket))
                => /\ ~Occurs(series[j], eqOut)
                   /\ \E h \in 1..i : /\ Instant(series[h]) = Instant(series[i])
                                      /\ Occurs(series[h], eqOut)
                                      /\ \A g \in 1..(h - 1) :
                                            Instant(series[g]) # Instant(series[i])
    /\ (pc = "pxDone" /\ range = "1M") =>
          \A i, j \in 1..Len(series) :
             (/\ i < j
              /\ Instant(series[i]) = Instant(series[j])
              /\ LatestOfBucket(series, i, WeekBucket))
                => /\ ~Occurs(series[j], pxOut)
                   /\ \E h \in 1..i : /\ Instant(series[h]) = Instant(series[i])
                                      /\ Occurs(series[h], pxOut)
                                      /\ \A g \in 1..(h - 1) :
                                            Instant(series[g]) # Instant(series[i])

\* a tie at the latest instant of a bucket, between a timestamp in seconds
\* and one in milliseconds, before a point of a later bucket
C5_Witness ==
    /\ pc = "pxDone"
    /\ range = "1M"
    /\ Len(series) = 3
    /\ Instant(series[1]) = Instant(series[2])
    /\ series[1].timestamp # series[2].timestamp
    /\ LatestOfBucket(series, 1, WeekBucket)
    /\ pxOut = <<series[1], series[3]>>

\* C6: for 1M and 1Y the output has as many points as the windowed input
\* points have distinct buckets.
C6_OnePointPerBucket ==
    /\ (pc = "eqDone" /\ range = "1M") =>
          Len(eqOut) = Cardinality({WeekBucket(q) : q \in Windowed(series)})
    /\ (pc = "eqDone" /\ range = "1Y") =>
          Len(eqOut) = Cardinality({CalendarBucket(q) : q \in Windowed(series)})
    /\ (pc = "pxDone" /\ range = "1M") =>
          Len(pxOut) = Cardinality({WeekBucket(q) : q \in Windowed(series)})
    /\ (pc = "pxDone" /\ range = "1Y") =>
          Len(pxOut) = Cardinality({CalendarBucket(q) : q \in Windowed(series)})

\* three windowed points in two buckets
C6_Witness ==
    /\ pc = "eqDone"
    /\ range = "1M"
    /\ Cardinality(Windowed(series)) = 3
    /\ Len(eqOut) = 2

\* C7: for 1D and 1W the output has exactly the windowed input points, each
\* once, those with the same timestamp included.
C7_ShortRangesKeepEveryPoint ==
    /\ (pc = "eqDone" /\ range \in {"1D", "1W"}) =>
          /\ Elements(eqOut) = Windowed(series)
          /\ Len(eqOut) = Cardinality(Windowed(series))
    /\ (pc = "pxDone" /\ range \in {"1D", "1W"}) =>
          /\ Elements(pxOut) = Windowed(series)
          /\ Len(pxOut) = Cardinality(Windowed(series))

\* two points with the same raw timestamp and a third of their week, all kept
C7_Witness ==
    /\ pc = "pxDone"
    /\ range = "1W"
    /\ Len(series) = 3
    /\ series[1].timestamp = series[3].timestamp
    /\ WeekBucket(series[2]) = WeekBucket(series[1])
    /\ Len(pxOut) = 3

\* C8 as stated: what the trade and position screens take as the last close
\* is the close of a point that no point of the history is later than by
\* normalized instant, and the range filter of the previous Home screen
\* keeps exactly the points whose normalized instant is in its window.
C8_EveryComparisonNormalized ==
    /\ (pc = "lastClose" /\ Len(series) > 0) =>
          \E i \in 1..Len(series) :
             /\ lastClose = <<series[i].value>>
             /\ \A j \in 1..Len(series) :
                   Geq(Instant(series[i]), Instant(series[j]))
    /\ pc = "oldFiltered" =>
          Elements(oldFiltered) =
             {q \in Elements(series) :
                 Geq(Instant(q), Minus(now, RANGE_MS_Old[range]))}

\* C9: a timestamp t in seconds and the timestamp 1000 * t > 1e12 in
\* milliseconds are normalized to the same value by every normalization of
\* the source, get the same 7-day bucket and the same month bucket, and are
\* both kept or both dropped by the range filters.
C9_UnitsAgree ==
    \A i, j \in 1..Len(series) :
       LET p == series[i]
           q == series[j]
       IN  (/\ InSeconds(p)
            /\ q.timestamp = Times1000(p.timestamp)
            /\ Gt(q.timestamp, E12)) =>
              /\ toMs(p.timestamp) = q.timestamp
              /\ toMs(q.timestamp) = q.timestamp
              /\ toMs_filterSeriesByRange(p) = toMs_filterSeriesByRange(q)
              /\ toMs_downsampleEquityByRange(p) = toMs_downsampleEquityByRange(q)
              /\ toSec_downsampleEquityByRange(p) = toSec_downsampleEquityByRange(q)
              /\ toSec(p) = toSec(q)
              /\ sec(p) = sec(q)
              /\ tsMs(p) = tsMs(q)
              /\ FloorDivSec(toSec_downsampleEquityByRange(p), SEVEN_DAYS_SEC)
                    = FloorDivSec(toSec_downsampleEquityByRange(q), SEVEN_DAYS_SEC)
              /\ FloorDivSec(sec(p), SEVEN_DAYS_SEC) = FloorDivSec(sec(q), SEVEN_DAYS_SEC)
              /\ MonthBucket(toMs_downsampleEquityByRange(p), tz)
                    = MonthBucket(toMs_downsampleEquityByRange(q), tz)
              /\ MonthBucket(tsMs(p), tz) = MonthBucket(tsMs(q), tz)
              /\ pc = "eqFiltered" => (Occurs(p, eqFiltered) <=> Occurs(q, eqFiltered))
              /\ pc = "pxFiltered" => (Occurs(p, pxFiltered) <=> Occurs(q, pxFiltered))

\* the same instant in both units twice: once kept, once dropped
C9_Witness ==
    /\ pc = "eqFiltered"
    /\ Len(series) = 3
    /\ InSeconds(series[1])
    /\ series[2].timestamp = Times1000(series[1].timestamp)
    /\ Gt(series[2].timestamp, E12)
    /\ eqFiltered = <<series[1], series[2]>>
    /\ ~InSeconds(series[3])
    /\ ~InWindow(series[3])

\* C10: the pipeline applied to its own output, with the same range and the
\* same now, returns the same points in the same order.
C10_PrepareIdempotent ==
    /\ pc = "eqAgain" => eqAgain = eqOut
    /\ pc = "pxAgain" => pxAgain = pxOut

\* a second run over an output of two points that left one input point out
C10_Witness ==
    /\ pc = "eqAgain"
    /\ range = "1M"
    /\ Len(series) = 3
    /\ Len(eqOut) = 2
    /\ Cardinality(Windowed(series)) = 3
    /\ Len(eqAgain) = 2

\* C11: the pipeline (filter, sort, downsample) and the last-close selection
\* leave the caller's series as it was, the same points in the same order,
\* for every range, and the array that the pipeline returns is never the
\* caller's array.
C11_InputUnchanged ==
    [][/\ series' = series
       /\ pc' \in {"eqFiltered", "eqDone", "pxFiltered", "pxDone"} => ~sameArray'
       /\ pc' = "eqDone" => eqFiltered' = eqFiltered
       /\ pc' = "pxDone" => pxFiltered' = pxFiltered]_vars

\* an unordered series is returned in order and is still unordered itself
C11_Witness ==
    /\ pc = "eqDone"
    /\ Len(series) = 2
    /\ Lt(Instant(series[2]), Instant(series[1]))
    /\ eqOut = <<series[2], series[1]>>
    /\ ~sameArray

\* C12: for every range and now, the pipeline returns the empty series for
\* the empty series and raises nothing; for a series of one point it returns
\* that point if the point passes the range filter and the empty series
\* otherwise.
C12_DegenerateSeries ==
    /\ (defined /\ Len(series) = 0) =>
          /\ pc # "pxThrew"
          /\ pc = "eqFiltered" => eqFiltered = <<>>
          /\ pc = "eqDone" => eqOut = <<>>
          /\ pc = "pxFiltered" => pxFiltered = <<>>
          /\ pc = "pxDone" => pxOut = <<>>
    /\ (defined /\ Len(series) = 1) =>
          LET expected == IF InWindow(series[1]) THEN <<series[1]>> ELSE <<>>
          IN  /\ pc # "pxThrew"
              /\ pc = "eqFiltered" => eqFiltered = expected
              /\ pc = "eqDone" => eqOut = expected
              /\ pc = "pxFiltered" => pxFiltered = expected
              /\ pc = "pxDone" => pxOut = expected

\* the price pipeline has returned the only point of a series
C12_Witness ==
    /\ pc = "pxDone"
    /\ Len(series) = 1
    /\ InWindow(series[1])
    /\ pxOut = series

\* the price pipeline has returned the empty series for the empty series
C12_WitnessEmpty ==
    /\ pc = "pxDone"
    /\ defined
    /\ Len(series) = 0
    /\ pxOut = <<>>

\* C13: when the series handed to a chart component is undefined, the
\* component ends in its empty-state branch and raises nothing, in
\* EquityChart and in MarketPriceChart and for every range.
C13_UndefinedSeriesEmptyState ==
    ~defined =>
       /\ pc # "pxThrew"
       /\ pc = "eqChart" => rendered.view = "empty"
       /\ pc \in {"pxChart", "pxRerendered"} => rendered.view = "empty"

\* EquityChart, which tests the series first, does end in its empty state
C13_EquityChartEmptyState ==
    (~defined /\ pc = "eqChart") => rendered.view = "empty"

\* C14: for every response of the equity-series and of the market-history
\* endpoint (non-2xx status, body that is not JSON, JSON without a series
\* field, series field that is not an array) the value that load() puts in
\* the state, which the next render hands to the pipeline as series, is an
\* array, and it is the empty array when the body holds no array of points.
C14_SeriesStateIsArray ==
    pc \in {"eqLoaded", "pxLoaded"} =>
       /\ loaded.type = "array"
       /\ ~HasArray(response.body) => loaded.items = <<>>

\* the market-history half: the position screen always stores an array
C14_HistoryStateIsArray ==
    pc = "pxLoaded" =>
       /\ loaded.type = "array"
       /\ ~HasArray(response.body) => loaded.items = <<>>

\* C15: every RANGE_MS table of the source maps 1D to 86,400,000 ms, 1W to
\* 604,800,000 ms, 1M to 2,592,000,000 ms and 1Y to 31,622,400,000 ms
\* (366 days), so that every copy of the range filter looks back over the
\* same window: a point in milliseconds is kept by the previous Home screen
\* exactly when it is inside the window of the table of the Home screen.
C15_SameLookbackEverywhere ==
    /\ \A table \in {RANGE_MS, RANGE_MS_Price, RANGE_MS_Old} :
          /\ table["1D"] = Num(86400, 0)
          /\ table["1W"] = Num(604800, 0)
          /\ table["1M"] = Num(2592000, 0)
          /\ table["1Y"] = Num(31622400, 0)
    /\ pc = "oldFiltered" =>
          \A i \in 1..Len(series) :
             ~InSeconds(series[i]) =>
                (Occurs(series[i], oldFiltered) <=> InWindow(series[i]))

\* the tables of the Home screen and of MarketPriceChart do agree
C15_CurrentTablesAgree ==
    /\ RANGE_MS = RANGE_MS_Price
    /\ RANGE_MS["1Y"] = Num(31622400, 0)
    /\ pc = "pxFiltered" =>
          \A i \in 1..Len(series) :
             Occurs(series[i], pxFiltered) <=> InWindow(series[i])

\* C16: in EquityChart every label is empty and exactly one caption is
\* shown ('Today' for 1D, 'Week' for 1W) if and only if the range is 1D with
\* more than 6 points or 1W with more than 7 points; at exactly 6 points
\* (1D) or 7 points (1W), and for 1M and 1Y at any count, every point has
\* its own label and there is no caption.
C16_LabelsOrCaption ==
    (pc = "eqChart" /\ rendered.view = "chart") =>
       LET count == Len(eqOut)
           dense == \/ range = "1D" /\ count > 6
                    \/ range = "1W" /\ count > 7
           data  == rendered.chartData
       IN  /\ Len(data) = count
           /\ dense =>
                 /\ \A i \in 1..count : data[i].label = <<>>
                 /\ rendered.captions = <<IF range = "1D" THEN "Today" ELSE "Week">>
           /\ ~dense =>
                 /\ \A i \in 1..count :
                       data[i].label = formatLabel(Instant(eqOut[i]), range, tz)
                 /\ rendered.captions = <<>>

\* a week of 8 points under the caption 'Week'
C16_Witness ==
    /\ pc = "eqChart"
    /\ range = "1W"
    /\ Len(eqOut) = 8
    /\ rendered.captions = <<"Week">>
    /\ \A i \in 1..8 : rendered.chartData[i].label = <<>>

\* the thresholds themselves: a day of 6 points and a week of 7, each point
\* with its label, and a day of 7 points under the caption 'Today'
C16_WitnessAtThreshold ==
    /\ pc = "eqChart"
    /\ \/ range = "1D" /\ Len(eqOut) = 6
       \/ range = "1W" /\ Len(eqOut) = 7
    /\ rendered.captions = <<>>
    /\ \A i \in 1..Len(eqOut) : rendered.chartData[i].label # <<>>

C16_WitnessToday ==
    /\ pc = "eqChart"
    /\ range = "1D"
    /\ Len(eqOut) = 7
    /\ rendered.captions = <<"Today">>

\* the label of the instant of p in the kind of the selected range
RangeLabel(p) ==
    LET d == DateParts(Instant(p), tz)
    IN  CASE range = "1D" -> <<"hour:minute", d.hour, d.minute>>
          [] range = "1W" -> <<"weekday", d.weekday>>
          [] range = "1M" -> <<"month day", d.month, d.day>>
          [] range = "1Y" -> <<"month", d.month>>

\* C17: in the equity chart and in the price chart the label of every
\* labelled point is formatted from its normalized millisecond instant in
\* the kind of the current range: hour:minute for 1D, weekday for 1W, month
\* and day for 1M, month for 1Y.
C17_LabelKindByRange ==
    /\ (pc = "eqChart" /\ rendered.view = "chart") =>
          \A i \in 1..Len(rendered.chartData) :
             rendered.chartData[i].label # <<>> =>
                rendered.chartData[i].label = RangeLabel(eqOut[i])
    /\ (pc \in {"pxChart", "pxRerendered"} /\ rendered.view = "chart") =>
          \A i \in 1..Len(rendered.chartData) :
             rendered.chartData[i].label = RangeLabel(pxOut[i])

\* the equity chart does label every point in the kind of the range
C17_EquityLabelKindByRange ==
    (pc = "eqChart" /\ rendered.view = "chart") =>
       \A i \in 1..Len(rendered.chartData) :
          rendered.chartData[i].label # <<>> =>
             rendered.chartData[i].label = RangeLabel(eqOut[i])

\* C18: at every render of MarketPriceChart the points on display are the
\* pipeline applied to the current series and range with the current time as
\* now, and none of them is older than now - RANGE_MS[range], however much
\* time has passed since the render before.
C18_DisplayIsCurrent ==
    pc \in {"pxChart", "pxRerendered"} =>
       /\ pxOut = downsampleForRange(filterByRange(series, range, now), range, tz)
       /\ \A i \in 1..Len(pxOut) : InWindow(pxOut[i])
       /\ rendered.chartData = seriesToChartData_Price(pxOut, tz)

\* the first render does show the pipeline of its own time, and every render
\* shows the memoized points
C18_FirstRenderIsCurrent ==
    /\ pc = "pxChart" =>
          pxOut = downsampleForRange(filterByRange(series, range, now), range, tz)
    /\ pc \in {"pxChart", "pxRerendered"} =>
          rendered.chartData = seriesToChartData_Price(pxOut, tz)

\* C19: for 1M, when no point of the input is later than now, the output
\* has at most 6 points, whatever the number and the spacing of the input
\* points.
C19_AtMostSixWeeks ==
    (/\ range = "1M"
     /\ \A i \in 1..Len(series) : ~Gt(Instant(series[i]), now)) =>
        /\ pc = "eqDone" => Len(eqOut) <= 6
        /\ pc = "pxDone" => Len(pxOut) <= 6

\* a feed of 9 points in a window that starts on the sixth day of a 7-day
\* bucket: 6 points are left
C19_Witness ==
    /\ pc = "eqDone"
    /\ range = "1M"
    /\ Len(series) = 9
    /\ \A i \in 1..Len(series) : ~Gt(Instant(series[i]), now)
    /\ Cardinality(Windowed(series)) = 9
    /\ Len(eqOut) = 6

\* C20: for every sequence of timestamps, every range and every now, the
\* equity pipeline (filterSeriesByRange, then downsampleEquityByRange) and
\* the price pipeline (filterByRange, then downsampleForRange) return the
\* points of the same positions of the input in the same order.
C20_PipelinesAgree ==
    /\ pc = "eqDone" =>
          eqOut = downsampleForRange(filterByRange(series, range, now), range, tz)
    /\ pc = "pxDone" =>
          pxOut = prepareChartData(series, range, now, tz)
    /\ pc = "eqFiltered" => eqFiltered = filterByRange(series, range, now)
    /\ pc = "pxFiltered" => pxFiltered = filterSeriesByRange(series, range, now)

\* a year of three points out of order, one of them at the cutoff, of which
\* the price pipeline has returned two
C20_Witness ==
    /\ pc = "pxDone"
    /\ range = "1Y"
    /\ Len(series) = 3
    /\ ~Ascending(series)
    /\ \E i \in 1..3 : Instant(series[i]) = Cutoff /\ Occurs(series[i], pxOut)
    /\ Len(pxOut) = 2
    /\ pxOut = prepareChartData(series, range, now, tz)

\* the number m / 100000 rounded to 4 decimals, in ten-thousandths
RoundedTo4(m) ==
    (m + 5) \div 10

\* the position of the decimal point of s, 0 if it has none
PointOf(s) ==
    IF \E i \in 1..Len(s) : s[i] = "."
    THEN CHOOSE i \in 1..Len(s) : s[i] = "."
    ELSE 0

\* the value of the digits of s, read as a natural number
RECURSIVE DigitsValue(_)
DigitsValue(s) ==
    IF Len(s) = 0 THEN 0
    ELSE 10 * DigitsValue(SubSeq(s, 1, Len(s) - 1))
            + (CHOOSE d \in 0..9 : DigitChars[d + 1] = s[Len(s)])

\* the absolute value of the decimal string s, in ten-thousandths; s has at
\* most 4 decimals
ValueOf(s) ==
    LET t == IF Len(s) > 0 /\ s[1] = "-" THEN SubSeq(s, 2, Len(s)) ELSE s
        p == PointOf(t)
        whole == IF p = 0 THEN t ELSE SubSeq(t, 1, p - 1)
        frac  == IF p = 0 THEN <<>> ELSE SubSeq(t, p + 1, Len(t))
        padded == frac \o [i \in 1..(4 - Len(frac)) |-> "0"]
    IN  DigitsValue(whole) * 10000 + DigitsValue(padded)

\* C22: formatQuantity returns String(qty) for an integer and '0' for NaN or
\* a value that is not a number; for a number that is not an integer it
\* returns qty rounded to 4 decimals without its trailing fractional zeros
\* and without a decimal point left last: the result never ends in '.' or
\* in a '0' after a decimal point, and it has every digit of the integer
\* part of the rounded quantity.
C22_FormatQuantity ==
    formatted # NotCalled =>
       /\ qty.kind \in {"NaN", "string", "undefined"} => formatted = <<"0">>
       /\ IsInteger(qty) =>
             /\ formatted = (IF qty.neg /\ qty.m # 0 THEN <<"-">> ELSE <<>>)
                               \o NatToString(qty.m \div 100000)
       /\ (qty.kind = "number" /\ ~IsInteger(qty)) =>
             LET p == PointOf(formatted)
                 digits == IF qty.neg THEN SubSeq(formatted, 2, Len(formatted))
                           ELSE formatted
                 whole == IF PointOf(digits) = 0 THEN digits
                          ELSE SubSeq(digits, 1, PointOf(digits) - 1)
             IN  /\ Len(formatted) > 0
                 /\ formatted[Len(formatted)] # "."
                 /\ p # 0 => formatted[Len(formatted)] # "0"
                 /\ (formatted[1] = "-") <=> qty.neg
                 /\ ValueOf(formatted) = RoundedTo4(qty.m)
                 /\ whole = NatToString(RoundedTo4(qty.m) \div 10000)

\* 100.00001 has become "100": the fraction is gone, the zeros of 100 are not
C22_Witness ==
    /\ qty = [kind |-> "number", neg |-> FALSE, m |-> 10000001]
    /\ formatted = <<"1", "0", "0">>

\* 0.45 has become "0.45", and 0.03125, halfway between, "0.0313"
C22_WitnessFraction ==
    \/ /\ qty = [kind |-> "number", neg |-> FALSE, m |-> 45000]
       /\ formatted = <<"0", ".", "4", "5">>
    \/ /\ qty = [kind |-> "number", neg |-> FALSE, m |-> 3125]
       /\ formatted = <<"0", ".", "0", "3", "1", "3">>

\* the options of the dropdown
Options ==
    {symbolList[i] : i \in 1..Len(symbolList)}

\* C21: in the Trade screen with the symbol dropdown, after any typing in
\* the symbol field and any selection of options, the symbol sent to
\* placeTrade is never the display text 'SYMBOL (name)' of an option: when
\* the symbol field shows the display text of an option, the request has the
\* symbol of that option only.
C21_OnlySymbolIsSent ==
    (screen = "tradeDropdown" /\ sent.made) =>
       \A o \in Options :
          /\ sent.symbol # DisplayText(o)
          /\ symbolInput = DisplayText(o) => sent.symbol = o.symbol

\* after a selection that the user has not typed over, the symbol of the
\* selected option is sent
C21_SelectedSymbolIsSent ==
    (screen = "tradeDropdown" /\ sent.made /\ selectedSymbol # NoOption) =>
       /\ sent.symbol = selectedSymbol.symbol
       /\ symbolInput = DisplayText(selectedSymbol)

\* the text converts (Number) to a finite integer greater than 0
WholePositive(text) ==
    LET q == NumberOf(text)
    IN  q.kind = "number" /\ ~q.neg /\ q.m > 0 /\ q.m % 100000 = 0

\* the screens with the message 'Quantity must be a whole number (e.g. 1, 2, 3)'
WholeNumberScreens ==
    {"trade", "tradeDropdown", "position"}

\* C24: in the trade and position screens with the message 'Quantity must
\* be a whole number (e.g. 1, 2, 3)', placeTrade is called only when the
\* quantity text converts to a finite integer greater than 0: for an empty,
\* zero, negative, fractional or non-numeric quantity confirmTrade shows no
\* confirmation and submit sends no request.
C24_WholeQuantityOnly ==
    screen \in WholeNumberScreens =>
       /\ tradePc = "confirm" => WholePositive(quantity)
       /\ sent.made =>
             /\ WholePositive(quantity)
             /\ sent.quantity = NumberOf(quantity)

\* the text ' 3 ' has been sent as 3 from the position screen
C24_Witness ==
    /\ screen = "position"
    /\ quantity = <<" ", "3", " ">>
    /\ sent.made
    /\ sent.quantity = [kind |-> "number", neg |-> FALSE, m |-> 300000]

\* position of event e in the sequence es, 0 if it is not there
IndexOf(es, e) ==
    IF \E i \in 1..Len(es) : es[i] = e
    THEN CHOOSE i \in 1..Len(es) : es[i] = e /\ \A j \in 1..(i - 1) : es[j] # e
    ELSE 0

CountOf(es, e) ==
    Cardinality({i \in 1..Len(es) : es[i] = e})

\* C27: a successful mutation (placeTrade from the trade and position
\* screens, addCash and removeCash from the piggy-bank screen) calls
\* notifyPortfolioChanged exactly once, after the response of the server and
\* before the success alert; a failed mutation never calls it and stores
\* the error message in the error state of the screen.
C27_NotifyOncePerSuccess ==
    tradePc = "done" =>
       /\ CountOf(events, "response ok") = 1 =>
             /\ CountOf(events, "notify") = 1
             /\ IndexOf(events, "response ok") < IndexOf(events, "notify")
             /\ IndexOf(events, "notify") < IndexOf(events, "alert success")
       /\ CountOf(events, "response error") = 1 =>
             /\ CountOf(events, "notify") = 0
             /\ errorState = <<"message">>

\* the screens with an error state do as the claim says
C27_ScreensWithErrorState ==
    (tradePc = "done" /\ screen # "tradeFirst") =>
       /\ CountOf(events, "response ok") = 1 =>
             /\ CountOf(events, "notify") = 1
             /\ IndexOf(events, "response ok") < IndexOf(events, "notify")
             /\ IndexOf(events, "notify") < IndexOf(events, "alert success")
       /\ CountOf(events, "response error") = 1 =>
             /\ CountOf(events, "notify") = 0
             /\ errorState = <<"message">>

\* C25: when every call to the bus has been made outside the listeners, a
\* notify calls, once each and in the order of their subscription, exactly
\* the distinct listeners that have been subscribed and not unsubscribed;
\* a listener that has been unsubscribed is called by no later notify, and a
\* second call of an unsubscribe function changes nothing
C25_NotifyCallsTheSubscribed ==
    (~asked.inside /\ asked.notified > 0 /\ ~pass.active) =>
        invoked = asked.due

\* the same, for the listeners that are subscribed once at most
C25_SubscribedOnce ==
    (~asked.inside /\ ~asked.twice /\ asked.notified > 0
        /\ ~pass.active) =>
        invoked = asked.due

C25_WitnessSubscribedOnce ==
    /\ ~asked.inside
    /\ ~asked.twice
    /\ ~pass.active
    /\ Len(invoked) = 2
    /\ \E i \in DOMAIN subs : subs[i].called

\* C26: a listener that another listener unsubscribes during a pass, before
\* its turn, is still called in that pass, and by no later notify; a listener
\* subscribed during a pass is not called for that subscription in that pass
C26_PassCallsTheListAtItsStart ==
    /\ (asked.notified > 0 /\ ~pass.active) =>
          /\ asked.pending \subseteq Elements(invoked)
          /\ \A l \in asked.added :
                 CountOf(invoked, l) = CountOf(asked.atStart, l)
    /\ Elements(invoked) \cap asked.goneBefore = {}

C26_Witness ==
    /\ asked.notified > 0
    /\ ~pass.active
    /\ asked.pending # {}
    /\ asked.pending \subseteq Elements(invoked)

C26_WitnessSubscribed ==
    /\ asked.notified > 0
    /\ ~pass.active
    /\ \E l \in asked.added : l \notin Elements(asked.atStart)
    /\ asked.goneBefore # {}
    /\ invoked # <<>>

\* every call made so far has come to its end
NoCallInFlight ==
    \A c \in DOMAIN calls : calls[c].pc = "done"

\* C23: the Home screen requests the equity series at most once in any
\* window of 6 hours: two requests are 6 hours apart or more
C23_OncePerWindow ==
    \A i, j \in DOMAIN home.fetches :
        i < j => home.fetches[j] - home.fetches[i] >= EQUITY_CHART_CACHE_MS

\* C28: once the initial load has come to its end, whenever no load, no
\* pull-to-refresh and no market refresh is in flight, loading is false and
\* refreshing is false, and chartLoading is false if a snapshot has been
\* loaded, whatever the order of the calls and of the responses
C28_FlagsAtRest ==
    (calls # <<>> /\ NoCallInFlight) =>
        /\ loading = FALSE
        /\ refreshing = FALSE
        /\ snapshot.loaded => chartLoading = FALSE

C28_Witness ==
    /\ Len(calls) = MaxLoads
    /\ NoCallInFlight
    /\ snapshot.loaded
    /\ \E c \in DOMAIN calls : calls[c].with # {}
    /\ \E c \in DOMAIN calls : ~calls[c].data.loaded
    /\ ~loading /\ ~refreshing /\ ~chartLoading

\* C29: when two calls of load overlap, after both have come to their end
\* the snapshot and the equity series of the state are those returned to the
\* call that began last, in whatever order the responses have arrived
C29_LastStartedWins ==
    \A a, b \in DOMAIN calls :
        (/\ NoCallInFlight
         /\ Len(home.order) >= 2
         /\ a = home.order[Len(home.order) - 1]
         /\ b = home.order[Len(home.order)]
         /\ a \in calls[b].with
         /\ calls[a].data.loaded
         /\ calls[b].data.loaded) =>
            /\ snapshot.id = b
            /\ calls[b].series => equitySeries.id = b

====
